---------------------------- MODULE Spec2Model ----------------------------
(***************************************************************************)
(* A model of opendeplete/openmc_wrapper.py: the OpenMCOperator that       *)
(* couples a depletion solver to OpenMC over a fixed set of MPI ranks.     *)
(*                                                                         *)
(* Material ids are Python strings (str(mat.id)); they are modelled as     *)
(* sequences of decimal digits, so that sorted() orders them as Python     *)
(* orders strings ("10" < "2").  Floating-point values are modelled as     *)
(* exact non-negative fractions <<n, d>>; d = 0 stands for a non-finite    *)
(* value (<<1, 0>> is inf, <<0, 0>> is nan).                               *)
(***************************************************************************)
EXTENDS Integers, Sequences, FiniteSets, TLC

VARIABLES
    size,               \* comm.size
    geometry,           \* the geometry: [burn, not_burn, cells, no_volume, nuclides]
    ppc,                \* position of the coordinator in extract_mat_ids
    mat_burn_lists,     \* extract_mat_ids: burnable ids by rank (1-based: rank i at i+1)
    mat_not_burn_lists, \* extract_mat_ids: non-burnable ids by rank
    mat_tally_ind,      \* sorted burnable ids; mat_tally_ind[k] has tally index k-1
    nuc_dict,           \* the keys of nuc_dict in the order of iteration
    nuc_to_ind,         \* the items of nuc_dict: <<name, index>>
    volume,             \* extract_mat_ids: the OrderedDict volume, as <<key, value>> items
    need_vol,           \* the ids in the message extract_mat_ids exits with
    ipc,                \* position of each rank in __init__
    held,               \* what each rank passes to extract_number, and its mat_tally_ind
    settings,           \* settings.power, settings.constant_seed
    dom,                \* the inputs explored: solver vectors, tally values, exit
                        \* statuses of OpenMC, steps
    pc,                 \* position of each rank in eval
    step,               \* number of eval calls each rank has returned from
    number,             \* self.number of each rank: [material][nuclide] atoms
    vec,                \* the argument of the rank's running eval call
    warnings,           \* warnings printed by the rank's generate_materials_xml
    nuc_set,            \* generate_tally_xml: the rank's local nuc_set
    chan,               \* point-to-point messages in flight, by <<source, dest>>
    bq,                 \* broadcast values from rank 0 not yet taken, by rank
    bar,                \* number of barriers each rank has entered
    ri,                 \* loop variable i of rank 0's receive and send loops
    sig,                \* the completion signal the rank's irecv obtained
    materials_xml,      \* the file materials.xml
    tallies_xml,        \* the file tallies.xml
    settings_xml,       \* the file settings.xml, and the step it was written in
    statepoint,         \* the file statepoint.<batches>.h5
    sim,                \* the external OpenMC process
    seed,               \* self.seed of each rank
    rates,              \* self.reaction_rates of each rank
    power,              \* the local variable power of each rank
    power_array,        \* rank 0's power_array
    ret,                \* what the rank's last eval returned
    count               \* how often OpenMC was called, the completion signal was
                        \* sent to each rank, and the statepoint was removed

pvars == <<size, geometry, ppc, mat_burn_lists, mat_not_burn_lists,
           mat_tally_ind, nuc_dict, nuc_to_ind, volume, need_vol, ipc, held>>

evars == <<settings, dom, pc, step, number, vec, warnings, nuc_set, chan, bq,
           bar, ri, sig, materials_xml, tallies_xml, settings_xml, statepoint,
           sim, seed, rates, power, power_array, ret, count>>

vars == <<pvars, evars>>

---------------------------------------------------------------------------
(* Bounds of the model. *)

\* Largest number of ranks explored.
MaxRanks == 3

\* Largest material id of the geometries the partitioner is run on.
MaxMatId == 12

---------------------------------------------------------------------------
(* Python strings and sorting. *)

\* str(n) for a non-negative integer: its decimal digits.
RECURSIVE str(_)
str(n) == IF n < 10 THEN <<n>> ELSE Append(str(n \div 10), n % 10)

\* int(s) for a string of decimal digits.
RECURSIVE int(_)
int(s) == IF Len(s) = 0 THEN 0
          ELSE 10 * int(SubSeq(s, 1, Len(s) - 1)) + s[Len(s)]

\* Python's s < t on strings given as sequences of character codes.
RECURSIVE StrLess(_, _)
StrLess(s, t) ==
    IF Len(t) = 0 THEN FALSE
    ELSE IF Len(s) = 0 THEN TRUE
    ELSE IF s[1] # t[1] THEN s[1] < t[1]
    ELSE StrLess(Tail(s), Tail(t))

\* sorted(list(S)) for a set S of strings.
RECURSIVE sorted(_)
sorted(S) ==
    IF S = {} THEN <<>>
    ELSE LET m == CHOOSE x \in S : \A y \in S : x = y \/ StrLess(x, y)
         IN  <<m>> \o sorted(S \ {m})

\* Python's list[a:b] (0-based, clamped to the list).
Slice(list, a, b) ==
    LET hi == IF b > Len(list) THEN Len(list) ELSE b
    IN  IF a >= hi THEN <<>> ELSE SubSeq(list, a + 1, hi)

Range(s) == {s[k] : k \in 1..Len(s)}

RECURSIVE Concat(_)
Concat(ss) == IF Len(ss) = 0 THEN <<>> ELSE ss[1] \o Concat(Tail(ss))

---------------------------------------------------------------------------
(* The depletion chain and the nuclides. *)

\* Character codes of the nuclide names, for Python's string order.
NameKey(nuc) ==
    CASE nuc = "H1"    -> <<72, 49>>
      [] nuc = "I135"  -> <<73, 49, 51, 53>>
      [] nuc = "O16"   -> <<79, 49, 54>>
      [] nuc = "U235"  -> <<85, 50, 51, 53>>
      [] nuc = "Xe135" -> <<88, 101, 49, 51, 53>>
      [] nuc = "U238"  -> <<85, 50, 51, 56>>
      [] nuc = "B10"   -> <<66, 49, 48>>

\* chain.nuclide_dict, in chain order.
chain_nuclides == <<"Xe135", "U235", "I135">>

\* nuclide.fission_power of the chain nuclides.
fission_power(nuc) == IF nuc = "U235" THEN 2 ELSE 0

\* chain.react_to_ind: position - 1 is the reaction index.
chain_reactions == <<"(n,gamma)", "fission">>

\* mat.nuclides of the materials of a geometry: fuel is burnable, water is not.
mat_nuclides(burn, not_burn) ==
    [m \in burn \cup not_burn |->
        IF m \in burn THEN {"U235", "O16"} ELSE {"H1", "O16"}]

\* mat.volume: None (the empty set) or a volume.
mat_volume(mat) == IF mat \in geometry.no_volume THEN {} ELSE {1}

---------------------------------------------------------------------------
(* extract_mat_ids *)

\* dict[key] = value on an OrderedDict: a known key keeps its position.
setitem(dict, key, value) ==
    IF \E k \in 1..Len(dict) : dict[k][1] = key
    THEN [k \in 1..Len(dict) |-> IF dict[k][1] = key THEN <<key, value>> ELSE dict[k]]
    ELSE Append(dict, <<key, value>>)

\* Lines 242-246: the empty sets and the empty volume.
no_cells == [mat_burn |-> {}, mat_not_burn |-> {}, nuc_set |-> {}, volume |-> <<>>]

\* Lines 249-273: the loop over the material cells, in the order of iteration.
RECURSIVE cells_loop(_, _)
cells_loop(cells, acc) ==
    IF Len(cells) = 0 THEN acc
    ELSE LET mat  == cells[1]
             seen == [acc EXCEPT !.nuc_set = @ \cup geometry.nuclides[mat]]
         IN  cells_loop(Tail(cells),
                 IF mat \in geometry.burn
                 THEN [seen EXCEPT !.mat_burn = @ \cup {str(mat)},
                                   !.volume = setitem(@, str(mat), mat_volume(mat))]
                 ELSE [seen EXCEPT !.mat_not_burn = @ \cup {str(mat)}])

\* Lines 275-279 leaving the loop at the first key found.
need_vol_first(dict) ==
    IF \E k \in 1..Len(dict) : dict[k][2] = {}
    THEN <<dict[CHOOSE k \in 1..Len(dict) :
                   dict[k][2] = {} /\ \A l \in 1..(k - 1) : dict[l][2] # {}][1]>>
    ELSE <<>>

\* Lines 275-279: the keys of volume whose value is None, in the order of volume.
RECURSIVE need_vol_loop(_)
need_vol_loop(dict) ==
    IF Len(dict) = 0 THEN <<>>
    ELSE (IF dict[1][2] = {} THEN <<dict[1][1]>> ELSE <<>>) \o need_vol_loop(Tail(dict))

\* Lines 255 and 266: the nuclides of the materials of the geometry (nuc_set).
geometry_nuclides == cells_loop(geometry.cells, no_cells).nuc_set

\* Line 290: a copy of chain.nuclide_dict, the chain nuclides at 0, 1, ...
chain_nuclide_dict == [k \in 1..Len(chain_nuclides) |-> <<chain_nuclides[k], k - 1>>]

\* Line 292 starting from 0.
first_free_zero(dict) == 0

\* Line 292: i = len(nuc_dict)
first_free(dict) == Len(dict)

\* Lines 294-297: the names not yet in the dictionary get i, i + 1, ...
RECURSIVE nuc_dict_loop(_, _, _)
nuc_dict_loop(dict, names, i) ==
    IF Len(names) = 0 THEN dict
    ELSE IF \E k \in 1..Len(dict) : dict[k][1] = names[1]
         THEN nuc_dict_loop(dict, Tail(names), i)
         ELSE nuc_dict_loop(Append(dict, <<names[1], i>>), Tail(names), i + 1)

\* Line 287: sorted(list(nuc_set))
sorted_names(S) ==
    LET keys == sorted({NameKey(x) : x \in S})
    IN  [k \in 1..Len(keys) |-> CHOOSE x \in S : NameKey(x) = keys[k]]

\* Lines 287-297: nuc_dict.
make_nuc_dict ==
    nuc_dict_loop(chain_nuclide_dict, sorted_names(geometry_nuclides),
                  first_free(chain_nuclide_dict))

\* The keys of a dictionary in the order of iteration.
keys_of(dict) == [k \in 1..Len(dict) |-> dict[k][1]]

\* Lines 305-308 with an off-by-one in the comparison.
c_chunk_le(i, chunk, extra) == IF i <= extra THEN chunk + 1 ELSE chunk

\* Lines 305-308: the size of rank i's chunk.
c_chunk(i, chunk, extra) == IF i < extra THEN chunk + 1 ELSE chunk

\* Lines 300-311 (and 313-323): the loop over the ranks, i = 0..n-1.
RECURSIVE decompose(_, _, _, _, _)
decompose(list, n, i, j, lists) ==
    IF i >= n THEN lists
    ELSE LET c == c_chunk(i, Len(list) \div n, Len(list) % n)
         IN  decompose(list, n, i + 1, j + c, Append(lists, Slice(list, j, j + c)))

\* Lines 325-328 enumerating the keys of volume instead.
enumerate_volume(found) == keys_of(found.volume)

\* Lines 325-328: mat_tally_ind enumerates the sorted mat_burn.
enumerate_mat_burn(found) == sorted(found.mat_burn)

\* Lines 284-330: what extract_mat_ids returns for the cells in a given order
\* of iteration, if no volume is missing.
returned(cells) ==
    LET found == cells_loop(cells, no_cells)
        dict  == nuc_dict_loop(chain_nuclide_dict, sorted_names(found.nuc_set),
                               first_free(chain_nuclide_dict))
    IN  [mat_burn_lists     |-> decompose(sorted(found.mat_burn), size, 0, 0, <<>>),
         mat_not_burn_lists |-> decompose(sorted(found.mat_not_burn), size, 0, 0, <<>>),
         volume             |-> found.volume,
         mat_tally_ind      |-> enumerate_mat_burn(found),
         nuc_dict           |-> dict]

\* Lines 242-330: rank 0 runs extract_mat_ids on the geometry; it exits at
\* line 282 if a burnable material has no volume.
extract_mat_ids ==
    /\ ppc = "start"
    /\ need_vol' = need_vol_loop(cells_loop(geometry.cells, no_cells).volume)
    /\ IF Len(need_vol') > 0
       THEN /\ ppc' = "exit"
            /\ UNCHANGED <<mat_burn_lists, mat_not_burn_lists, mat_tally_ind,
                           nuc_dict, nuc_to_ind, volume>>
       ELSE /\ mat_burn_lists' = returned(geometry.cells).mat_burn_lists
            /\ mat_not_burn_lists' = returned(geometry.cells).mat_not_burn_lists
            /\ mat_tally_ind' = returned(geometry.cells).mat_tally_ind
            /\ nuc_dict' = keys_of(returned(geometry.cells).nuc_dict)
            /\ nuc_to_ind' = returned(geometry.cells).nuc_dict
            /\ volume' = returned(geometry.cells).volume
            /\ ppc' = "done"
    /\ UNCHANGED <<size, geometry, ipc, held, evars>>

\* The locals of __init__ that are passed to extract_number, none bound yet.
nothing_held ==
    [has |-> {}, mat_burn |-> <<>>, mat_not_burn |-> <<>>, nuc_dict |-> <<>>,
     volume |-> <<>>, mat_tally_ind |-> <<>>, info_volume |-> {}]

\* No operator has been constructed yet: every rank is at line 188 of
\* __init__, rank 0 about to call extract_mat_ids, and no eval has run.
NotConstructed ==
    /\ ipc = [r \in 0..(size - 1) |-> IF r = 0 THEN "extract" ELSE "recv_burn"]
    /\ held = [r \in 0..(size - 1) |-> nothing_held]
    /\ chan = [p \in (0..(size - 1)) \X (0..(size - 1)) |-> <<>>]
    /\ bq = [r \in 0..(size - 1) |-> <<>>]
    /\ number = [r \in 0..(size - 1) |-> <<>>]
    /\ rates = [r \in 0..(size - 1) |-> <<>>]
    /\ ri = 1
    /\ settings = [power |-> 0, constant_seed |-> 0]
    /\ dom = [vecs |-> {}, res |-> {}, status |-> {}, steps |-> 0, info |-> FALSE]
    /\ pc = <<>> /\ step = <<>> /\ vec = <<>>
    /\ warnings = <<>> /\ nuc_set = <<>>
    /\ bar = <<>> /\ sig = <<>>
    /\ materials_xml = <<>> /\ tallies_xml = <<>> /\ settings_xml = <<>>
    /\ statepoint = <<>> /\ sim = <<>>
    /\ seed = <<>> /\ power = <<>> /\ power_array = <<>>
    /\ ret = <<>>
    /\ count = <<>>

\* The material ids the partitioner is explored on.
MatIds == {1, 2, 3, 10, MaxMatId}

\* The materials of S in the order of their ids.
RECURSIVE in_id_order(_)
in_id_order(S) ==
    IF S = {} THEN <<>>
    ELSE LET m == CHOOSE x \in S : \A y \in S : x <= y
         IN  <<m>> \o in_id_order(S \ {m})

\* Rank 0 is about to call extract_mat_ids (line 191).
NotExtracted ==
    /\ ppc = "start"
    /\ mat_burn_lists = <<>>
    /\ mat_not_burn_lists = <<>>
    /\ mat_tally_ind = <<>>
    /\ nuc_dict = <<>>
    /\ nuc_to_ind = <<>>
    /\ volume = <<>>
    /\ need_vol = <<>>

PartInit ==
    /\ size \in 1..MaxRanks
    /\ \E b \in SUBSET MatIds : \E nb \in SUBSET (MatIds \ b) :
         geometry = [burn |-> b, not_burn |-> nb, cells |-> in_id_order(b \cup nb),
                     no_volume |-> {}, nuclides |-> mat_nuclides(b, nb)]
    /\ NotExtracted
    /\ NotConstructed

PartNext == extract_mat_ids

SpecPart == PartInit /\ [][PartNext]_vars

---------------------------------------------------------------------------
(* Bounds and inputs of the eval steps. *)

\* Largest comm.size the eval steps are explored with.
MaxSize == 2

\* Number of eval calls each rank makes.
MaxSteps == 2

\* Stands for sys.maxsize: random.randint(1, sys.maxsize-1) draws from
\* 1..sys_maxsize-1, of which the two ends are explored.
sys_maxsize == 3

\* The warning threshold -1.0e-21 of line 546; densities are counted in units
\* of 0.5e-21 atoms/barn-cm.
WarnThreshold == -2

\* The burnable and non-burnable materials of the geometry the steps run on.
StepGeometry ==
    [burn |-> {2, 10}, not_burn |-> {3}, cells |-> <<2, 3, 10>>, no_volume |-> {},
     nuclides |-> mat_nuclides({2, 10}, {3})]

\* Solver vectors of one material (atoms of the chain nuclides, in chain
\* order) and fission tally values: a few, for the runs over several steps.
FewVecs == {<<0, 2, 0>>, <<0, 1, 1>>}
FewRes  == {1, 2}

\* The same, covering every sign and threshold case, for the runs of one step.
ManyVecs == {<<0, u, -3>> : u \in {-3, -2, -1, 0, 2}} \cup
            {<<1, u, 1>> : u \in {-3, -2, -1, 0, 2}}
ManyRes  == {0, 1, 2}

---------------------------------------------------------------------------
(* Floating-point values as fractions. *)

RECURSIVE GCD(_, _)
GCD(a, b) == IF b = 0 THEN a ELSE GCD(b, a % b)

Frac(n, d) ==
    IF d = 0 THEN <<IF n = 0 THEN 0 ELSE 1, 0>>
    ELSE LET g == GCD(n, d) IN <<n \div g, d \div g>>

Finite(a) == a[2] # 0

\* a / b for finite a and b; x / 0 is inf, 0 / 0 is nan (numpy semantics).
FDiv(a, b) == IF b[1] = 0 THEN Frac(a[1], 0) ELSE Frac(a[1] * b[2], a[2] * b[1])

\* a * b; inf * 0 is nan.
FMul(a, b) ==
    IF Finite(a) /\ Finite(b) THEN Frac(a[1] * b[1], a[2] * b[2])
    ELSE IF a = <<0, 0>> \/ b = <<0, 0>> \/ a[1] = 0 \/ b[1] = 0 THEN <<0, 0>>
    ELSE <<1, 0>>

RECURSIVE SumSeq(_)
SumSeq(s) == IF Len(s) = 0 THEN 0 ELSE s[1] + SumSeq(Tail(s))

\* list.index(x) of Python.
IndexOf(list, x) == (CHOOSE k \in 1..Len(list) : list[k] = x) - 1

---------------------------------------------------------------------------
(* The state each rank holds after __init__. *)

Ranks == 0..(size - 1)

\* Lines 351-354: the rank's burnable materials (number.burn_mat_list).
burn_mat_list(r) == mat_burn_lists[r + 1]

\* Lines 347-358 without the loop over mat_not_burn.
mat_to_ind_burn(r) == mat_burn_lists[r + 1]

\* Lines 347-358: the rank's materials, burnable first (number.mat_to_ind).
mat_to_ind(r) == mat_burn_lists[r + 1] \o mat_not_burn_lists[r + 1]

\* Line 361: n_nuc_burn.
n_nuc_burn == Len(chain_nuclides)

\* The names listed by the libraries of cross_sections.xml, in file order.
cross_sections == <<"H1", "O16", "U235", "Xe135", "U235">>

\* Lines 846-857: participating_nuclides.
participating_nuclides == Range(cross_sections)

\* Lines 843-857: burn_nuc_to_ind, the participating chain nuclides in file order.
RECURSIVE load_participating(_, _, _)
load_participating(names, seen, burn) ==
    IF Len(names) = 0 THEN burn
    ELSE IF names[1] \in seen THEN load_participating(Tail(names), seen, burn)
    ELSE load_participating(Tail(names), seen \cup {names[1]},
            IF names[1] \in Range(chain_nuclides) THEN Append(burn, names[1])
            ELSE burn)

burn_nuc_to_ind == load_participating(cross_sections, {}, <<>>)

\* Lines 400-405: the shape of reaction_rates.
n_nuc   == Len(burn_nuc_to_ind)
n_react == Len(chain_reactions)

\* Line 758.
fission_ind == IndexOf(chain_reactions, "fission")

\* Lines 395-398: the atoms the geometry gives a material (unit volumes).
set_number_from_mat(mat, nuc) ==
    IF nuc \in geometry.nuclides[int(mat)]
    THEN (IF nuc \in {"U235", "H1"} THEN 2 ELSE 1)
    ELSE 0

\* number.get_atom_density(mat, nuc) times 1.0e-24, line 530.
get_atom_density(r, mat, nuc) == number[r][mat][nuc]

ZeroRates(r) ==
    [i \in 0..(Len(burn_mat_list(r)) - 1) |->
        [a \in 0..(n_nuc - 1) |-> [b \in 0..(n_react - 1) |-> <<0, 1>>]]]

NoFile == [exists |-> FALSE]

\* The state after every rank has run __init__ (lines 165-223).
Constructed(sizes, seeds, d) ==
    /\ size \in sizes
    /\ geometry = StepGeometry
    /\ ppc = "done"
    /\ LET mat_burn     == sorted({str(m) : m \in geometry.burn})
           mat_not_burn == sorted({str(m) : m \in geometry.not_burn})
       IN  /\ mat_burn_lists = decompose(mat_burn, size, 0, 0, <<>>)
           /\ mat_not_burn_lists = decompose(mat_not_burn, size, 0, 0, <<>>)
           /\ mat_tally_ind = mat_burn
    /\ nuc_dict = keys_of(make_nuc_dict)
    /\ nuc_to_ind = make_nuc_dict
    /\ volume = cells_loop(geometry.cells, no_cells).volume
    /\ need_vol = <<>>
    /\ ipc = [r \in Ranks |-> "constructed"]
    /\ held = [r \in Ranks |->
                 [has |-> {"mat_burn", "mat_not_burn", "nuc_dict", "volume",
                           "mat_tally_ind"},
                  mat_burn |-> mat_burn_lists[r + 1],
                  mat_not_burn |-> mat_not_burn_lists[r + 1],
                  nuc_dict |-> nuc_dict, volume |-> volume,
                  mat_tally_ind |-> mat_tally_ind, info_volume |-> {}]]
    /\ settings \in [power : {3}, constant_seed : seeds]
    /\ dom = d
    /\ pc = [r \in Ranks |-> "idle"]
    /\ step = [r \in Ranks |-> 0]
    /\ number = [r \in Ranks |->
                   [m \in Range(mat_to_ind(r)) |->
                      [nuc \in Range(nuc_dict) |-> set_number_from_mat(m, nuc)]]]
    /\ vec = [r \in Ranks |-> <<>>]
    /\ warnings = [r \in Ranks |-> <<>>]
    /\ nuc_set = [r \in Ranks |-> {}]
    /\ chan = [p \in Ranks \X Ranks |-> <<>>]
    /\ bq = [r \in Ranks |-> <<>>]
    /\ bar = [r \in Ranks |-> 0]
    /\ ri = 0
    /\ sig = [r \in Ranks |-> -1]
    /\ materials_xml = [open |-> FALSE, doc |-> <<>>, written |-> 0]
    /\ tallies_xml = NoFile
    /\ settings_xml = NoFile
    /\ statepoint = NoFile
    /\ sim = [state |-> "idle", runs |-> 0, status |-> 0]
    /\ seed = [r \in Ranks |-> 0]
    /\ rates = [r \in Ranks |-> ZeroRates(r)]
    /\ power = [r \in Ranks |-> 0]
    /\ power_array = <<>>
    /\ ret = [r \in Ranks |-> [step |-> -1, rates |-> <<>>, seed |-> 0]]
    /\ count = [call |-> 0, signal |-> [r \in Ranks |-> 0], remove |-> 0]

---------------------------------------------------------------------------
(* Message passing. *)

\* comm.send(body, dest, tag): the message is buffered.
send(ch, src, dst, tag, kind, body, s) ==
    [ch EXCEPT ![<<src, dst>>] =
        Append(@, [tag |-> tag, kind |-> kind, body |-> body, step |-> s])]

\* A message from src with this tag has arrived at dst.
probe(src, dst, tag) == \E k \in 1..Len(chan[<<src, dst>>]) : chan[<<src, dst>>][k].tag = tag

\* A receive that takes the latest message from src, whatever its tag.
first_latest(src, dst, tag) == Len(chan[<<src, dst>>])

\* comm.recv(source, tag): the earliest message from src with this tag.
first(src, dst, tag) ==
    CHOOSE k \in 1..Len(chan[<<src, dst>>]) :
        /\ chan[<<src, dst>>][k].tag = tag
        /\ \A l \in 1..(k - 1) : chan[<<src, dst>>][l].tag # tag

recv(src, dst, tag) == chan[<<src, dst>>][first(src, dst, tag)]

taken(src, dst, tag) ==
    LET q == chan[<<src, dst>>]
        k == first(src, dst, tag)
    IN  [chan EXCEPT ![<<src, dst>>] = SubSeq(q, 1, k - 1) \o SubSeq(q, k + 1, Len(q))]

\* A rank that goes on without joining the barrier.
barrier_enter_absent(r, at, to) ==
    /\ pc[r] = at
    /\ pc' = [pc EXCEPT ![r] = to]
    /\ UNCHANGED bar

\* comm.barrier(): the rank enters its next barrier ...
barrier_enter(r, at, to) ==
    /\ pc[r] = at
    /\ bar' = [bar EXCEPT ![r] = @ + 1]
    /\ pc' = [pc EXCEPT ![r] = to]

\* A barrier that lets a rank through at once.
barrier_open(r) == TRUE

\* ... and leaves it once every rank has entered it.
barrier_passed(r) == \A q \in Ranks : bar[q] >= bar[r]

---------------------------------------------------------------------------
(* __init__, lines 188-223: the task lists are created and distributed. *)

part_vars == <<size, geometry, ppc, mat_burn_lists, mat_not_burn_lists,
               mat_tally_ind, nuc_dict, nuc_to_ind, volume, need_vol>>

eval_vars == <<settings, dom, pc, step, vec, warnings, nuc_set, bar, sig,
               materials_xml, tallies_xml, settings_xml, statepoint, sim, seed,
               power, power_array, ret, count>>

\* Lines 201-204: one pass of the loop; the three objects are sent to rank i.
init_send ==
    /\ ppc = "done"
    /\ ipc[0] = "extract"
    /\ ri < size
    /\ chan' = send(send(send(chan, 0, ri, 0, "mat_burn", mat_burn_lists[ri + 1], 0),
                         0, ri, 1, "mat_not_burn", mat_not_burn_lists[ri + 1], 0),
                    0, ri, 2, "nuc_dict", nuc_dict, 0)
    /\ ri' = ri + 1
    /\ UNCHANGED <<part_vars, ipc, held, bq, number, rates, eval_vars>>

\* Lines 196-197 and 213-214 on rank 0: its own lists, and the two broadcasts.
init_bcast ==
    /\ ppc = "done"
    /\ ipc[0] = "extract"
    /\ ri >= size
    /\ held' = [held EXCEPT ![0] =
                   [has |-> {"mat_burn", "mat_not_burn", "nuc_dict", "volume",
                             "mat_tally_ind"},
                    mat_burn |-> mat_burn_lists[1],
                    mat_not_burn |-> mat_not_burn_lists[1],
                    nuc_dict |-> nuc_dict, volume |-> volume,
                    mat_tally_ind |-> mat_tally_ind, info_volume |-> {}]]
    /\ bq' = [r \in Ranks |-> IF r = 0 THEN bq[r]
                              ELSE bq[r] \o <<volume, mat_tally_ind>>]
    /\ ipc' = [ipc EXCEPT ![0] = "extract_number"]
    /\ UNCHANGED <<part_vars, chan, ri, number, rates, eval_vars>>

\* Lines 207-209 with tag 0 in the three receives.
init_tag_zero(at) == 0

\* Lines 207-209: the tag of the blocking receive the rank is in.
init_tag(at) ==
    CASE at = "recv_burn" -> 0 [] at = "recv_not_burn" -> 1 [] at = "recv_nuc_dict" -> 2

\* Lines 207-214 without the two broadcasts of lines 213-214.
init_next_no_bcast(at) ==
    CASE at = "recv_burn" -> "recv_not_burn"
      [] at = "recv_not_burn" -> "recv_nuc_dict"
      [] at = "recv_nuc_dict" -> "extract_number"

\* Lines 207-214: the statement after the one the rank is in.
init_next(at) ==
    CASE at = "recv_burn" -> "recv_not_burn"
      [] at = "recv_not_burn" -> "recv_nuc_dict"
      [] at = "recv_nuc_dict" -> "bcast_volume"
      [] at = "bcast_volume" -> "bcast_mat_tally_ind"
      [] at = "bcast_mat_tally_ind" -> "extract_number"

\* The local that a received object is bound to.
bind(h, at, object) ==
    CASE at = "recv_burn" ->
             [h EXCEPT !.mat_burn = object, !.has = @ \cup {"mat_burn"}]
      [] at = "recv_not_burn" ->
             [h EXCEPT !.mat_not_burn = object, !.has = @ \cup {"mat_not_burn"}]
      [] at = "recv_nuc_dict" ->
             [h EXCEPT !.nuc_dict = object, !.has = @ \cup {"nuc_dict"}]
      [] at = "bcast_volume" ->
             [h EXCEPT !.volume = object, !.has = @ \cup {"volume"}]
      [] at = "bcast_mat_tally_ind" ->
             [h EXCEPT !.mat_tally_ind = object, !.has = @ \cup {"mat_tally_ind"}]

\* Lines 207-209 on another rank: one of the three blocking receives.
init_recv(r) ==
    /\ r # 0
    /\ ipc[r] \in {"recv_burn", "recv_not_burn", "recv_nuc_dict"}
    /\ probe(0, r, init_tag(ipc[r]))
    /\ held' = [held EXCEPT ![r] = bind(@, ipc[r], recv(0, r, init_tag(ipc[r])).body)]
    /\ chan' = taken(0, r, init_tag(ipc[r]))
    /\ ipc' = [ipc EXCEPT ![r] = init_next(@)]
    /\ UNCHANGED <<part_vars, bq, ri, number, rates, eval_vars>>

\* Lines 213-214 on another rank: one of the two broadcasts.
init_bcast_recv(r) ==
    /\ r # 0
    /\ ipc[r] \in {"bcast_volume", "bcast_mat_tally_ind"}
    /\ bq[r] # <<>>
    /\ held' = [held EXCEPT ![r] = bind(@, ipc[r], Head(bq[r]))]
    /\ bq' = [bq EXCEPT ![r] = Tail(@)]
    /\ ipc' = [ipc EXCEPT ![r] = init_next(@)]
    /\ UNCHANGED <<part_vars, chan, ri, number, rates, eval_vars>>

\* Lines 216-223: extract_number, load_participating, initialize_reaction_rates.
extract_number(r) ==
    /\ ipc[r] = "extract_number"
    /\ number' = [number EXCEPT ![r] =
                     [m \in Range(held[r].mat_burn \o held[r].mat_not_burn) |->
                        [nuc \in Range(held[r].nuc_dict) |-> set_number_from_mat(m, nuc)]]]
    /\ rates' = [rates EXCEPT ![r] =
                    [i \in 0..(Len(held[r].mat_burn) - 1) |->
                        [a \in 0..(n_nuc - 1) |-> [b \in 0..(n_react - 1) |-> <<0, 1>>]]]]
    /\ ipc' = [ipc EXCEPT ![r] = "constructed"]
    /\ UNCHANGED <<part_vars, held, chan, bq, ri, eval_vars>>

\* All the orders in which the cells of the materials of S may be iterated.
RECURSIVE orders(_)
orders(S) ==
    IF S = {} THEN {<<>>}
    ELSE UNION {{<<m>> \o rest : rest \in orders(S \ {m})} : m \in S}

\* mat.nuclides of the materials, for the geometries that are constructed.
StartNuclides(burn, not_burn) ==
    {mat_nuclides(burn, not_burn),
     [m \in burn \cup not_burn |->
         IF m \in burn THEN {"U238", "U235", "O16"} ELSE {"H1", "B10"}],
     [m \in burn \cup not_burn |->
         IF m \in burn THEN {"Xe135", "I135"} ELSE {}],
     [m \in burn \cup not_burn |->
         IF m \in burn THEN {"O16"} ELSE {"U238", "B10"}]}

\* The geometries that are constructed: materials 2 and 10 may be burnable,
\* 3 is not; a material may fill two cells.
StartGeometries ==
    UNION {UNION {{[burn |-> b, not_burn |-> nb, cells |-> c, no_volume |-> nv,
                    nuclides |-> n] :
                       c \in orders(b \cup nb) \cup
                             {in_id_order(b \cup nb) \o <<m>> : m \in b \cup nb},
                       nv \in SUBSET (b \cup nb),
                       n \in StartNuclides(b, nb)} :
                   b \in SUBSET {2, 10}} : nb \in SUBSET {3}}

StartInit ==
    /\ size \in 1..MaxRanks
    /\ geometry \in StartGeometries
    /\ NotExtracted
    /\ NotConstructed

StartNext ==
    \/ extract_mat_ids
    \/ init_send
    \/ init_bcast
    \/ \E r \in Ranks : init_recv(r)
    \/ \E r \in Ranks : init_bcast_recv(r)
    \/ \E r \in Ranks : extract_number(r)

SpecStart == StartInit /\ [][StartNext]_vars

---------------------------------------------------------------------------
(* eval, lines 431-437: set_density and the three input documents. *)

\* eval is called on a constructed operator (after get_results_info, in a
\* program that calls it). Lines 704-706: the solver's vector replaces the
\* chain nuclides' atoms of the rank's burnable materials, material i from
\* total_density[i].
set_density(r) ==
    /\ ipc[r] = (IF dom.info THEN "ready" ELSE "constructed")
    /\ pc[r] = "idle"
    /\ step[r] < dom.steps
    /\ \E v \in [1..Len(burn_mat_list(r)) -> dom.vecs] :
         /\ vec' = [vec EXCEPT ![r] = v]
         /\ number' = [number EXCEPT ![r] =
              [m \in DOMAIN @ |->
                 IF m \in Range(burn_mat_list(r))
                 THEN [nuc \in DOMAIN @[m] |->
                         IF IndexOf(nuc_dict, nuc) < n_nuc_burn
                         THEN v[IndexOf(mat_to_ind(r), m) + 1][IndexOf(nuc_dict, nuc) + 1]
                         ELSE @[m][nuc]]
                 ELSE @[m]]]
    /\ pc' = [pc EXCEPT ![r] = "materials"]
    /\ UNCHANGED <<pvars, count, settings, dom, step, warnings, nuc_set, chan, bq, bar,
                   ri, sig, materials_xml, tallies_xml, settings_xml, statepoint,
                   sim, seed, rates, power, power_array, ret>>

\* Lines 676-691: the atoms of the chain nuclides of the rank's burnable
\* materials, material index i at position i (number.get_mat_slice(i)).
total_density_list(r) ==
    [i \in 1..Len(burn_mat_list(r)) |->
        [k \in 1..n_nuc_burn |-> number[r][mat_to_ind(r)[i]][nuc_dict[k]]]]

\* Line 546 with the boundary value included.
significantly_negative_le(val) == val <= WarnThreshold

\* Line 546: the density is significantly negative.
significantly_negative(val) == val < WarnThreshold

\* Line 529 without the test: every nuclide is written or clamped.
written_or_clamped_all(nuc) == TRUE

\* Line 529: the nuclide is written or clamped.
written_or_clamped(nuc) == nuc \in participating_nuclides

\* Lines 518-542: the element of one material.
material_element(r, mat) ==
    LET positive(nuc) == written_or_clamped(nuc) /\ get_atom_density(r, mat, nuc) > 0
        names == SelectSeq(nuc_dict, positive)
    IN  [kind |-> "material", id |-> mat, by |-> r,
         nuclides |-> [k \in 1..Len(names) |->
                         [name |-> names[k], ao |-> get_atom_density(r, mat, names[k])]]]

header == [kind |-> "header", id |-> <<>>, by |-> 0, nuclides |-> <<>>]
footer == [kind |-> "footer", id |-> <<>>, by |-> 0, nuclides |-> <<>>]

\* Lines 517-563: xml_string.
xml_string(r) == [k \in 1..Len(mat_to_ind(r)) |-> material_element(r, mat_to_ind(r)[k])]

\* Lines 543-548: the warnings, in the order of the two loops.
warnings_of(r) ==
    Concat([k \in 1..Len(mat_to_ind(r)) |->
        LET mat == mat_to_ind(r)[k]
            warned(nuc) == /\ written_or_clamped(nuc)
                           /\ ~(get_atom_density(r, mat, nuc) > 0)
                           /\ significantly_negative(get_atom_density(r, mat, nuc))
            names == SelectSeq(nuc_dict, warned)
        IN  [j \in 1..Len(names) |-> [nuc |-> names[j], mat |-> mat]]])

\* Lines 543-549 without the assignment of line 549.
not_clamped(r) == number[r]

\* Line 549: self.number[mat, nuc] = 0.0
clamped(r) ==
    [m \in DOMAIN number[r] |->
        [nuc \in DOMAIN number[r][m] |->
            IF written_or_clamped(nuc) /\ ~(get_atom_density(r, m, nuc) > 0)
            THEN 0 ELSE number[r][m][nuc]]]

\* Lines 515-572 on rank 0: the fragment, then the file is opened and the
\* header and the fragment are written.
generate_materials_xml_open ==
    /\ pc[0] = "materials"
    /\ warnings' = [warnings EXCEPT ![0] = warnings_of(0)]
    /\ number' = [number EXCEPT ![0] = clamped(0)]
    /\ materials_xml' = [open |-> TRUE, doc |-> <<header>> \o xml_string(0),
                         written |-> materials_xml.written + 1]
    /\ ri' = 1
    /\ pc' = [pc EXCEPT ![0] = "materials_recv"]
    /\ UNCHANGED <<pvars, count, settings, dom, step, vec, nuc_set, chan, bq, bar, sig,
                   tallies_xml, settings_xml, statepoint, sim, seed, rates,
                   power, power_array, ret>>

\* What f.write makes of a received object.
written_text(msg) ==
    IF msg.kind = "fragment" THEN msg.body
    ELSE <<[kind |-> msg.kind, id |-> <<>>, by |-> 0, nuclides |-> <<>>]>>

\* Line 574 with an empty range: rank 0 receives no fragment.
materials_range_empty(i) == FALSE

\* Line 574: i is in range(1, self.size).
materials_range(i) == i < size

\* Lines 574-576: one pass of the loop.
generate_materials_xml_recv ==
    /\ pc[0] = "materials_recv"
    /\ materials_range(ri)
    /\ probe(ri, 0, ri)
    /\ materials_xml' = [materials_xml EXCEPT !.doc = @ \o written_text(recv(ri, 0, ri))]
    /\ chan' = taken(ri, 0, ri)
    /\ ri' = ri + 1
    /\ UNCHANGED <<pvars, count, settings, dom, pc, step, number, vec, warnings, nuc_set,
                   bq, bar, sig, tallies_xml, settings_xml, statepoint, sim,
                   seed, rates, power, power_array, ret>>

\* Lines 578-583: the footer, the file is closed, and rank 0 enters the barrier.
generate_materials_xml_close ==
    /\ ~materials_range(ri)
    /\ barrier_enter(0, "materials_recv", "materials_barrier")
    /\ materials_xml' = [materials_xml EXCEPT !.doc = Append(@, footer), !.open = FALSE]
    /\ UNCHANGED <<pvars, count, settings, dom, step, number, vec, warnings, nuc_set,
                   chan, bq, ri, sig, tallies_xml, settings_xml, statepoint, sim,
                   seed, rates, power, power_array, ret>>

\* Lines 515-563 and 581-583 on another rank: the fragment is sent to rank 0.
generate_materials_xml_send(r) ==
    /\ r # 0
    /\ barrier_enter(r, "materials", "materials_barrier")
    /\ warnings' = [warnings EXCEPT ![r] = warnings_of(r)]
    /\ number' = [number EXCEPT ![r] = clamped(r)]
    /\ chan' = send(chan, r, 0, r, "fragment", xml_string(r), step[r])
    /\ UNCHANGED <<pvars, count, settings, dom, step, vec, nuc_set, bq, ri, sig,
                   materials_xml, tallies_xml, settings_xml, statepoint, sim,
                   seed, rates, power, power_array, ret>>

\* Lines 634-638 without the test of line 635.
local_nuc_set_all(r) ==
    {nuc \in Range(nuc_dict) :
        SumSeq([k \in 1..Len(mat_to_ind(r)) |-> number[r][mat_to_ind(r)[k]][nuc]]) > 0}

\* Lines 631-638: the participating nuclides the rank holds with a positive sum.
local_nuc_set(r) ==
    {nuc \in Range(nuc_dict) :
        /\ nuc \in participating_nuclides
        /\ SumSeq([k \in 1..Len(mat_to_ind(r)) |-> number[r][mat_to_ind(r)[k]][nuc]]) > 0}

\* Line 583 and lines 631-638 on rank 0.
generate_tally_xml_local ==
    /\ pc[0] = "materials_barrier"
    /\ barrier_passed(0)
    /\ nuc_set' = [nuc_set EXCEPT ![0] = local_nuc_set(0)]
    /\ ri' = 1
    /\ pc' = [pc EXCEPT ![0] = "tally_recv"]
    /\ UNCHANGED <<pvars, count, settings, dom, step, number, vec, warnings, chan, bq,
                   bar, sig, materials_xml, tallies_xml, settings_xml, statepoint,
                   sim, seed, rates, power, power_array, ret>>

\* What the loop of lines 644-645 adds from a received object.
received_nuclides(msg) == IF msg.kind = "nuc_set" THEN msg.body ELSE {msg.kind}

\* Line 642 with an empty range: rank 0 receives no nuc_set.
tally_range_empty(i) == FALSE

\* Line 642: i is in range(1, self.size).
tally_range(i) == i < size

\* Lines 642-645: one pass of the loop.
generate_tally_xml_recv ==
    /\ pc[0] = "tally_recv"
    /\ tally_range(ri)
    /\ probe(ri, 0, ri)
    /\ nuc_set' = [nuc_set EXCEPT ![0] = @ \cup received_nuclides(recv(ri, 0, ri))]
    /\ chan' = taken(ri, 0, ri)
    /\ ri' = ri + 1
    /\ UNCHANGED <<pvars, count, settings, dom, pc, step, number, vec, warnings, bq, bar,
                   sig, materials_xml, tallies_xml, settings_xml, statepoint, sim,
                   seed, rates, power, power_array, ret>>

\* Lines 664-666 without the test.
tallied_any(nuc) == TRUE

\* Lines 664-666: the nuclides of nuc_list that the tally lists.
tallied(nuc) == nuc \in Range(chain_nuclides)

\* Lines 647-651.
nuc_list(r) == LET member(nuc) == nuc \in nuc_set[r] IN SelectSeq(nuc_dict, member)

\* Lines 647-674: rank 0 writes tallies.xml.
generate_tally_xml_write ==
    /\ pc[0] = "tally_recv"
    /\ ~tally_range(ri)
    /\ tallies_xml' = [exists   |-> TRUE,
                       nuclides |-> SelectSeq(nuc_list(0), tallied),
                       scores   |-> chain_reactions,
                       mats     |-> [k \in 1..Len(mat_tally_ind) |-> int(mat_tally_ind[k])]]
    /\ pc' = [pc EXCEPT ![0] = "settings"]
    /\ UNCHANGED <<pvars, count, settings, dom, step, number, vec, warnings, nuc_set,
                   chan, bq, bar, ri, sig, materials_xml, settings_xml, statepoint,
                   sim, seed, rates, power, power_array, ret>>

\* Line 583, lines 631-638 and 653 on another rank, which then posts the
\* irecv of line 452 (generate_settings_xml does nothing there).
generate_tally_xml_send(r) ==
    /\ r # 0
    /\ pc[r] = "materials_barrier"
    /\ barrier_passed(r)
    /\ nuc_set' = [nuc_set EXCEPT ![r] = local_nuc_set(r)]
    /\ chan' = send(chan, r, 0, r, "nuc_set", local_nuc_set(r), step[r])
    /\ pc' = [pc EXCEPT ![r] = "test"]
    /\ UNCHANGED <<pvars, count, settings, dom, step, number, vec, warnings, bq, bar,
                   ri, sig, materials_xml, tallies_xml, settings_xml, statepoint,
                   sim, seed, rates, power, power_array, ret>>

\* Lines 613-616: the seed of the run.
drawn_seeds ==
    IF settings.constant_seed # {} THEN settings.constant_seed
    ELSE {1, sys_maxsize - 1}

\* Lines 596-621: rank 0 writes settings.xml.
generate_settings_xml ==
    /\ pc[0] = "settings"
    /\ \E s \in drawn_seeds :
         /\ seed' = [seed EXCEPT ![0] = s]
         /\ settings_xml' = [exists |-> TRUE, seed |-> s, step |-> step[0]]
    /\ pc' = [pc EXCEPT ![0] = "call"]
    /\ UNCHANGED <<pvars, count, settings, dom, step, number, vec, warnings, nuc_set,
                   chan, bq, bar, ri, sig, materials_xml, tallies_xml, statepoint,
                   sim, rates, power, power_array, ret>>

---------------------------------------------------------------------------
(* eval, lines 439-454: the run of OpenMC and the completion signal. *)

\* Line 443: rank 0 starts OpenMC, which reads its input documents.
call_openmc ==
    /\ pc[0] = "call"
    /\ sim' = [state |-> "running", runs |-> sim.runs, status |-> sim.status,
               tally |-> tallies_xml]
    /\ count' = [count EXCEPT !.call = @ + 1]
    /\ pc' = [pc EXCEPT ![0] = "calling"]
    /\ UNCHANGED <<pvars, settings, dom, step, number, vec, warnings, nuc_set,
                   chan, bq, bar, ri, sig, materials_xml, tallies_xml,
                   settings_xml, statepoint, seed, rates, power, power_array, ret>>

\* The results of one run: a fission value of dom.res for every material and
\* nuclide bin; every other score holds its own position in the row.
tally_results(tally) ==
    LET nm == Len(tally.mats)
        nn == Len(tally.nuclides)
        nr == Len(tally.scores)
    IN  {[s \in 1..nm |->
            [j \in 1..(nn * nr) |->
                IF tally.scores[((j - 1) % nr) + 1] = "fission"
                THEN f[s][((j - 1) \div nr) + 1] ELSE j]] :
         f \in [1..nm -> [1..nn -> dom.res]]}

\* Line 443 returns, and the exit status is dropped: OpenMC has written the
\* statepoint of the requested tally; a run that exits with a nonzero status
\* may have written none.
openmc_done ==
    /\ pc[0] = "calling"
    /\ sim.state = "running"
    /\ \E status \in dom.status :
         /\ \/ \E res \in tally_results(sim.tally) :
                  statepoint' = [exists    |-> TRUE,
                                 run       |-> sim.runs,
                                 materials |-> sim.tally.mats,
                                 nuclides  |-> sim.tally.nuclides,
                                 reactions |-> sim.tally.scores,
                                 results   |-> res]
            \/ status # 0 /\ UNCHANGED statepoint
         /\ sim' = [state |-> "idle", runs |-> sim.runs + 1, status |-> status,
                    tally |-> sim.tally]
    /\ ri' = 1
    /\ pc' = [pc EXCEPT ![0] = "signal"]
    /\ UNCHANGED <<pvars, count, settings, dom, step, number, vec, warnings, nuc_set,
                   chan, bq, bar, sig, materials_xml, tallies_xml, settings_xml,
                   seed, rates, power, power_array, ret>>

\* Line 446 with the last rank left out.
in_range_short(i) == i < size - 1

\* Line 446: i is in range(1, self.size).
in_range(i) == i < size

\* Lines 446-447: one pass of the loop.
signal_send ==
    /\ pc[0] = "signal"
    /\ in_range(ri)
    /\ chan' = send(chan, 0, ri, 0, "signal", TRUE, step[0])
    /\ count' = [count EXCEPT !.signal[ri] = @ + 1]
    /\ ri' = ri + 1
    /\ UNCHANGED <<pvars, settings, dom, pc, step, number, vec, warnings, nuc_set,
                   bq, bar, sig, materials_xml, tallies_xml, settings_xml,
                   statepoint, sim, seed, rates, power, power_array, ret>>

\* Line 453 without the wait.
Test_always(r) == TRUE

\* Line 453: status.Test(), the message of the irecv has arrived.
Test(r) == probe(0, r, 0)

\* Lines 453-454: the test fails; the rank sleeps a second and tests again.
sleep(r) ==
    /\ r # 0
    /\ pc[r] = "test"
    /\ ~Test(r)
    /\ UNCHANGED vars

\* Line 453: the test succeeds; the irecv has obtained the message, if any.
signal_received(r) ==
    /\ r # 0
    /\ pc[r] = "test"
    /\ Test(r)
    /\ IF probe(0, r, 0)
       THEN /\ sig' = [sig EXCEPT ![r] = recv(0, r, 0).step]
            /\ chan' = taken(0, r, 0)
       ELSE UNCHANGED <<sig, chan>>
    /\ pc' = [pc EXCEPT ![r] = "unpack"]
    /\ UNCHANGED <<pvars, count, settings, dom, step, number, vec, warnings, nuc_set,
                   bq, bar, ri, materials_xml, tallies_xml, settings_xml,
                   statepoint, sim, seed, rates, power, power_array, ret>>

\* Rank 0 leaves the loop of lines 446-447.
signal_sent ==
    /\ pc[0] = "signal"
    /\ ~in_range(ri)
    /\ pc' = [pc EXCEPT ![0] = "unpack"]
    /\ UNCHANGED <<pvars, count, settings, dom, step, number, vec, warnings, nuc_set,
                   chan, bq, bar, ri, sig, materials_xml, tallies_xml,
                   settings_xml, statepoint, sim, seed, rates, power,
                   power_array, ret>>

---------------------------------------------------------------------------
(* unpack_tallies_and_normalize *)

\* Lines 731-745: the rates are zeroed and the statepoint is opened; the
\* open fails when there is no such file.
unpack_open(r) ==
    /\ pc[r] = "unpack"
    /\ rates' = [rates EXCEPT ![r] = ZeroRates(r)]
    /\ pc' = [pc EXCEPT ![r] = IF statepoint.exists THEN "ingest" ELSE "failed"]
    /\ UNCHANGED <<pvars, count, settings, dom, step, number, vec, warnings, nuc_set,
                   chan, bq, bar, ri, sig, materials_xml, tallies_xml,
                   settings_xml, statepoint, sim, seed, power, power_array, ret>>

\* Line 748 with the index of number.nuc_to_ind for that of reaction_rates.
nuc_ind_global == [p \in 1..Len(statepoint.nuclides) |->
                      IndexOf(nuc_dict, statepoint.nuclides[p])]

\* Lines 738-749: the bins of the tally and the two index maps.
materials == [k \in 1..Len(statepoint.materials) |-> str(statepoint.materials[k])]
nuc_ind   == [p \in 1..Len(statepoint.nuclides) |->
                 IndexOf(burn_nuc_to_ind, statepoint.nuclides[p])]
react_ind == [q \in 1..Len(statepoint.reactions) |->
                 IndexOf(chain_reactions, statepoint.reactions[q])]

\* Lines 760-764.
power_vec == [a \in 0..(n_nuc - 1) |-> fission_power(burn_nuc_to_ind[a + 1])]

\* Lines 769-772 with slab = i: the row at the position the material has in
\* the list of its rank.
results_at_position(mat) ==
    LET r == CHOOSE r \in Ranks : mat \in Range(burn_mat_list(r))
    IN  statepoint.results[IndexOf(burn_mat_list(r), mat) + 1]

\* Lines 769-772: the row of the material.
results(mat) == statepoint.results[IndexOf(materials, mat) + 1]

\* Lines 774-784 with np.empty for np.zeros: what is not tallied is not 0.
results_expanded_empty(mat) ==
    [a \in 0..(n_nuc - 1) |-> [b \in 0..(n_react - 1) |->
        IF \E p \in 1..Len(nuc_ind), q \in 1..Len(react_ind) :
               nuc_ind[p] = a /\ react_ind[q] = b
        THEN LET p == CHOOSE p \in 1..Len(nuc_ind) : nuc_ind[p] = a
                 q == CHOOSE q \in 1..Len(react_ind) : react_ind[q] = b
             IN  results(mat)[(p - 1) * Len(react_ind) + q]
        ELSE 1]]

\* Lines 774-784: the row in the layout of reaction_rates.
results_expanded(mat) ==
    [a \in 0..(n_nuc - 1) |-> [b \in 0..(n_react - 1) |->
        IF \E p \in 1..Len(nuc_ind), q \in 1..Len(react_ind) :
               nuc_ind[p] = a /\ react_ind[q] = b
        THEN LET p == CHOOSE p \in 1..Len(nuc_ind) : nuc_ind[p] = a
                 q == CHOOSE q \in 1..Len(react_ind) : react_ind[q] = b
             IN  results(mat)[(p - 1) * Len(react_ind) + q]
        ELSE 0]]

\* Lines 775-783: the atoms of the tallied nuclides in the material.
number_of(r, mat) ==
    [a \in 0..(n_nuc - 1) |->
        IF \E p \in 1..Len(nuc_ind) : nuc_ind[p] = a
        THEN number[r][mat][statepoint.nuclides[CHOOSE p \in 1..Len(nuc_ind) : nuc_ind[p] = a]]
        ELSE 0]

\* Line 787 without the fission energies.
fission_power_of_row_unweighted(mat) ==
    SumSeq([k \in 1..n_nuc |-> results_expanded(mat)[k - 1][fission_ind]])

\* Line 787: np.dot(results_expanded[:, fission_ind], power_vec)
fission_power_of_row(mat) ==
    SumSeq([k \in 1..n_nuc |-> results_expanded(mat)[k - 1][fission_ind] * power_vec[k - 1]])

\* Line 792 without the test.
nonzero_always(x) == TRUE

\* Line 792: number[i_nuc_results] != 0.0
nonzero(x) == x # 0

\* Lines 790-793: the row divided by the atoms.
per_atom(r, mat) ==
    [a \in 0..(n_nuc - 1) |-> [b \in 0..(n_react - 1) |->
        IF /\ a \in Range(nuc_ind)
           /\ b \in Range(react_ind)
           /\ nonzero(number_of(r, mat)[a])
        THEN FDiv(<<results_expanded(mat)[a][b], 1>>, <<number_of(r, mat)[a], 1>>)
        ELSE <<results_expanded(mat)[a][b], 1>>]]

\* Lines 754 and 787: the fission power of the rank's rows.
partial_power(r) ==
    SumSeq([i \in 1..Len(burn_mat_list(r)) |-> fission_power_of_row(burn_mat_list(r)[i])])

\* Lines 767-795: the rows of the rank.
ingested(r) ==
    [i \in 0..(Len(burn_mat_list(r)) - 1) |-> per_atom(r, burn_mat_list(r)[i + 1])]

\* Lines 747-801 on rank 0.
unpack_ingest ==
    /\ pc[0] = "ingest"
    /\ rates' = [rates EXCEPT ![0] = ingested(0)]
    /\ power' = [power EXCEPT ![0] = partial_power(0)]
    /\ power_array' = [i \in 1..size |-> IF i = 1 THEN partial_power(0) ELSE 0]
    /\ ri' = 1
    /\ pc' = [pc EXCEPT ![0] = "power_recv"]
    /\ UNCHANGED <<pvars, count, settings, dom, step, number, vec, warnings, nuc_set,
                   chan, bq, bar, sig, materials_xml, tallies_xml, settings_xml,
                   statepoint, sim, seed, ret>>

\* Lines 747-795 and 808 on another rank.
unpack_ingest_send(r) ==
    /\ r # 0
    /\ pc[r] = "ingest"
    /\ rates' = [rates EXCEPT ![r] = ingested(r)]
    /\ power' = [power EXCEPT ![r] = partial_power(r)]
    /\ chan' = send(chan, r, 0, r, "power", partial_power(r), step[r])
    /\ pc' = [pc EXCEPT ![r] = "bcast"]
    /\ UNCHANGED <<pvars, count, settings, dom, step, number, vec, warnings, nuc_set,
                   bq, bar, ri, sig, materials_xml, tallies_xml, settings_xml,
                   statepoint, sim, seed, power_array, ret>>

\* What line 804 stores of a received object.
received_power(msg) == IF msg.kind = "power" THEN msg.body ELSE 0

\* Lines 803-804: one pass of the loop.
power_recv ==
    /\ pc[0] = "power_recv"
    /\ ri < size
    /\ probe(ri, 0, ri)
    /\ power_array' = [power_array EXCEPT ![ri + 1] = received_power(recv(ri, 0, ri))]
    /\ chan' = taken(ri, 0, ri)
    /\ ri' = ri + 1
    /\ UNCHANGED <<pvars, count, settings, dom, pc, step, number, vec, warnings, nuc_set,
                   bq, bar, sig, materials_xml, tallies_xml, settings_xml,
                   statepoint, sim, seed, rates, power, ret>>

\* Line 806 without rank 0's own power.
total_power_others(arr) == SumSeq(Tail(arr))

\* Line 806: np.sum(power_array)
total_power(arr) == SumSeq(arr)

\* Lines 806 and 810 on rank 0: the sum, broadcast to the other ranks.
power_bcast ==
    /\ pc[0] = "power_recv"
    /\ ri >= size
    /\ power' = [power EXCEPT ![0] = total_power(power_array)]
    /\ bq' = [r \in Ranks |-> IF r = 0 THEN bq[r] ELSE Append(bq[r], total_power(power_array))]
    /\ pc' = [pc EXCEPT ![0] = "scale"]
    /\ UNCHANGED <<pvars, count, settings, dom, step, number, vec, warnings, nuc_set,
                   chan, bar, ri, sig, materials_xml, tallies_xml, settings_xml,
                   statepoint, sim, seed, rates, power_array, ret>>

\* Line 810 on another rank.
power_bcast_recv(r) ==
    /\ r # 0
    /\ pc[r] = "bcast"
    /\ bq[r] # <<>>
    /\ power' = [power EXCEPT ![r] = Head(bq[r])]
    /\ bq' = [bq EXCEPT ![r] = Tail(@)]
    /\ pc' = [pc EXCEPT ![r] = "scale"]
    /\ UNCHANGED <<pvars, count, settings, dom, step, number, vec, warnings, nuc_set,
                   chan, bar, ri, sig, materials_xml, tallies_xml, settings_xml,
                   statepoint, sim, seed, rates, power_array, ret>>

\* Line 812 with the ratio turned over.
scale_factor_inverse(r) == FDiv(<<power[r], 1>>, <<settings.power, 1>>)

\* Line 812: settings.power / power
scale_factor(r) == FDiv(<<settings.power, 1>>, <<power[r], 1>>)

\* Line 812, then the rank enters the barrier of line 461.
scale(r) ==
    /\ barrier_enter(r, "scale", "barrier")
    /\ rates' = [rates EXCEPT ![r] =
         [i \in DOMAIN @ |-> [a \in DOMAIN @[i] |-> [b \in DOMAIN @[i][a] |->
             FMul(@[i][a][b], scale_factor(r))]]]]
    /\ UNCHANGED <<pvars, count, settings, dom, step, number, vec, warnings, nuc_set,
                   chan, bq, ri, sig, materials_xml, tallies_xml, settings_xml,
                   statepoint, sim, seed, power, power_array, ret>>

\* Lines 461-465: rank 0 leaves the barrier and removes the statepoint.
remove_statepoint ==
    /\ pc[0] = "barrier"
    /\ barrier_passed(0)
    /\ statepoint' = NoFile
    /\ count' = [count EXCEPT !.remove = @ + 1]
    /\ pc' = [pc EXCEPT ![0] = "return"]
    /\ UNCHANGED <<pvars, settings, dom, step, number, vec, warnings, nuc_set,
                   chan, bq, bar, ri, sig, materials_xml, tallies_xml,
                   settings_xml, sim, seed, rates, power, power_array, ret>>

\* Line 461: another rank leaves the barrier.
barrier_leave(r) ==
    /\ r # 0
    /\ pc[r] = "barrier"
    /\ barrier_passed(r)
    /\ pc' = [pc EXCEPT ![r] = "return"]
    /\ UNCHANGED <<pvars, count, settings, dom, step, number, vec, warnings, nuc_set,
                   chan, bq, bar, ri, sig, materials_xml, tallies_xml,
                   settings_xml, statepoint, sim, seed, rates, power,
                   power_array, ret>>

\* Line 471: eval returns k, self.reaction_rates and self.seed.
eval_return(r) ==
    /\ pc[r] = "return"
    /\ ret' = [ret EXCEPT ![r] = [step |-> step[r], rates |-> rates[r], seed |-> seed[r]]]
    /\ step' = [step EXCEPT ![r] = @ + 1]
    /\ vec' = [vec EXCEPT ![r] = <<>>]
    /\ pc' = [pc EXCEPT ![r] = "idle"]
    /\ UNCHANGED <<pvars, count, settings, dom, number, warnings, nuc_set, chan, bq, bar,
                   ri, sig, materials_xml, tallies_xml, settings_xml, statepoint,
                   sim, seed, rates, power, power_array>>

---------------------------------------------------------------------------
(* get_results_info, lines 864-896: the volumes of all burnable materials. *)

\* The value of a key of an OrderedDict.
getitem(dict, key) == dict[CHOOSE k \in 1..Len(dict) : dict[k][1] = key][2]

\* Lines 882-884: the volumes of the rank's burnable materials.
own_volume(r) ==
    {<<held[r].mat_burn[i], getitem(held[r].volume, held[r].mat_burn[i])>> :
        i \in 1..Len(held[r].mat_burn)}

\* Lines 882-884 on rank 0, which then enters the loop of line 887.
get_results_info_local ==
    /\ dom.info
    /\ ipc[0] = "constructed"
    /\ held' = [held EXCEPT ![0].info_volume = own_volume(0)]
    /\ ri' = 1
    /\ ipc' = [ipc EXCEPT ![0] = "info_recv"]
    /\ UNCHANGED <<part_vars, chan, bq, number, rates, eval_vars>>

\* What lines 889-890 add from a received object.
received_volume(msg) == IF msg.kind = "volume" THEN msg.body ELSE {<<msg.kind, {}>>}

\* Lines 887-890: one pass of the loop.
get_results_info_recv ==
    /\ ipc[0] = "info_recv"
    /\ ri < size
    /\ probe(ri, 0, ri)
    /\ held' = [held EXCEPT ![0].info_volume = @ \cup received_volume(recv(ri, 0, ri))]
    /\ chan' = taken(ri, 0, ri)
    /\ ri' = ri + 1
    /\ UNCHANGED <<part_vars, ipc, bq, number, rates, eval_vars>>

\* Line 894 on rank 0: the broadcast of the merged volumes.
get_results_info_bcast ==
    /\ ipc[0] = "info_recv"
    /\ ri >= size
    /\ bq' = [r \in Ranks |-> IF r = 0 THEN bq[r]
                              ELSE Append(bq[r], held[0].info_volume)]
    /\ ipc' = [ipc EXCEPT ![0] = "ready"]
    /\ UNCHANGED <<part_vars, held, chan, ri, number, rates, eval_vars>>

\* Lines 882-884 and 892 on another rank.
get_results_info_send(r) ==
    /\ dom.info
    /\ r # 0
    /\ ipc[r] = "constructed"
    /\ chan' = send(chan, r, 0, r, "volume", own_volume(r), 0)
    /\ ipc' = [ipc EXCEPT ![r] = "info_bcast"]
    /\ UNCHANGED <<part_vars, held, bq, ri, number, rates, eval_vars>>

\* Lines 894-896 on another rank.
get_results_info_bcast_recv(r) ==
    /\ r # 0
    /\ ipc[r] = "info_bcast"
    /\ bq[r] # <<>>
    /\ held' = [held EXCEPT ![r].info_volume = Head(bq[r])]
    /\ bq' = [bq EXCEPT ![r] = Tail(@)]
    /\ ipc' = [ipc EXCEPT ![r] = "ready"]
    /\ UNCHANGED <<part_vars, chan, ri, number, rates, eval_vars>>

---------------------------------------------------------------------------
(* The specifications. *)

Next ==
    \/ \E r \in Ranks : set_density(r)
    \/ generate_materials_xml_open
    \/ generate_materials_xml_recv
    \/ generate_materials_xml_close
    \/ \E r \in Ranks : generate_materials_xml_send(r)
    \/ generate_tally_xml_local
    \/ generate_tally_xml_recv
    \/ generate_tally_xml_write
    \/ \E r \in Ranks : generate_tally_xml_send(r)
    \/ generate_settings_xml
    \/ call_openmc
    \/ openmc_done
    \/ signal_send
    \/ signal_sent
    \/ \E r \in Ranks : sleep(r)
    \/ \E r \in Ranks : signal_received(r)
    \/ \E r \in Ranks : unpack_open(r)
    \/ unpack_ingest
    \/ \E r \in Ranks : unpack_ingest_send(r)
    \/ power_recv
    \/ power_bcast
    \/ \E r \in Ranks : power_bcast_recv(r)
    \/ \E r \in Ranks : scale(r)
    \/ remove_statepoint
    \/ \E r \in Ranks : barrier_leave(r)
    \/ \E r \in Ranks : eval_return(r)

\* Runs of MaxSteps steps on 1..MaxSize ranks, a few inputs per step.
Init ==
    Constructed(1..MaxSize, {{}, {7}},
                [vecs |-> FewVecs, res |-> FewRes, status |-> {0, 1}, steps |-> MaxSteps,
                 info |-> FALSE])

Spec == Init /\ [][Next]_vars

\* Runs of one step on one or two ranks, over all the inputs.
DataInit ==
    Constructed({1, 2}, {{7}},
                [vecs |-> ManyVecs, res |-> ManyRes, status |-> {0}, steps |-> 1,
                 info |-> FALSE])

SpecData == DataInit /\ [][Next]_vars

\* Runs of MaxSteps steps on 1..MaxSize ranks with one input per step and
\* either exit status, where a rank that can take a step of eval takes one:
\* every process is scheduled, and a run of OpenMC returns.
FairInit ==
    Constructed(1..MaxSize, {{7}},
                [vecs |-> {<<0, 2, 0>>, <<1, 2, 0>>}, res |-> {1}, status |-> {0, 1},
                 steps |-> MaxSteps, info |-> FALSE])

FairSpec == FairInit /\ [][Next]_vars /\ WF_vars(Next)

\* The geometries of the whole runs: two burnable materials, or one, so that
\* the second of two ranks has none; a burnable material may lack a volume.
RunGeometries ==
    {[burn |-> b, not_burn |-> {3}, cells |-> in_id_order(b \cup {3}),
      no_volume |-> nv, nuclides |-> mat_nuclides(b, {3})] :
        b \in {{2, 10}, {2}}, nv \in {{}, {2}}}

\* Whole runs: every rank constructs the operator, calls get_results_info
\* or not, and then calls eval MaxSteps times.
RunInit ==
    /\ size \in 1..MaxSize
    /\ geometry \in RunGeometries
    /\ NotExtracted
    /\ ipc = [r \in Ranks |-> IF r = 0 THEN "extract" ELSE "recv_burn"]
    /\ held = [r \in Ranks |-> nothing_held]
    /\ chan = [p \in Ranks \X Ranks |-> <<>>]
    /\ bq = [r \in Ranks |-> <<>>]
    /\ number = [r \in Ranks |-> <<>>]
    /\ rates = [r \in Ranks |-> <<>>]
    /\ ri = 1
    /\ settings = [power |-> 3, constant_seed |-> {7}]
    /\ dom \in [vecs : {{<<1, 2, 0>>}}, res : {{1}}, status : {{0, 1}},
                steps : {MaxSteps}, info : BOOLEAN]
    /\ pc = [r \in Ranks |-> "idle"]
    /\ step = [r \in Ranks |-> 0]
    /\ vec = [r \in Ranks |-> <<>>]
    /\ warnings = [r \in Ranks |-> <<>>]
    /\ nuc_set = [r \in Ranks |-> {}]
    /\ bar = [r \in Ranks |-> 0]
    /\ sig = [r \in Ranks |-> -1]
    /\ materials_xml = [open |-> FALSE, doc |-> <<>>, written |-> 0]
    /\ tallies_xml = NoFile
    /\ settings_xml = NoFile
    /\ statepoint = NoFile
    /\ sim = [state |-> "idle", runs |-> 0, status |-> 0]
    /\ seed = [r \in Ranks |-> 0]
    /\ power = [r \in Ranks |-> 0]
    /\ power_array = <<>>
    /\ ret = [r \in Ranks |-> [step |-> -1, rates |-> <<>>, seed |-> 0]]
    /\ count = [call |-> 0, signal |-> [r \in Ranks |-> 0], remove |-> 0]

RunNext ==
    \/ StartNext
    \/ get_results_info_local
    \/ get_results_info_recv
    \/ get_results_info_bcast
    \/ \E r \in Ranks : get_results_info_send(r)
    \/ \E r \in Ranks : get_results_info_bcast_recv(r)
    \/ Next

SpecRun == RunInit /\ [][RunNext]_vars

\* Whole runs where a rank that can take a step takes one, and a run of
\* OpenMC returns.
FairRun == RunInit /\ [][RunNext]_vars /\ WF_vars(RunNext)

---------------------------------------------------------------------------
(* C1: extract_mat_ids gives rank i floor(n/r)+1 ids if i < n mod r and    *)
(* floor(n/r) otherwise, for the burnable and for the non-burnable ids;    *)
(* two chunk sizes differ by at most 1; the chunks concatenated in rank    *)
(* order are the ids of the geometry in strictly increasing string order.  *)

IsSortedListOf(list, S) ==
    /\ Range(list) = {str(m) : m \in S}
    /\ Len(list) = Cardinality(S)
    /\ \A k \in 1..(Len(list) - 1) : StrLess(list[k], list[k + 1])

BalancedChunks(lists, S) ==
    LET n == Cardinality(S)
    IN  /\ Len(lists) = size
        /\ \A i \in 0..(size - 1) :
             Len(lists[i + 1]) = (n \div size) + (IF i < n % size THEN 1 ELSE 0)
        /\ \A i, k \in 1..size : Len(lists[i]) - Len(lists[k]) <= 1
        /\ IsSortedListOf(Concat(lists), S)

C1_Partition ==
    ppc = "done" =>
        /\ BalancedChunks(mat_burn_lists, geometry.burn)
        /\ BalancedChunks(mat_not_burn_lists, geometry.not_burn)

\* Three ranks share five burnable and two non-burnable materials, "10" among them.
C1_Witness ==
    /\ ppc = "done"
    /\ size = 3
    /\ geometry.burn = {1, 2, 3, 10, MaxMatId}
    /\ Len(mat_burn_lists[1]) = 2 /\ Len(mat_burn_lists[3]) = 1

---------------------------------------------------------------------------
(* What the claims about a step read off the state. *)

\* The rank has built its fragment in the running eval call, and the
\* materials document of that call is complete.
DocumentOf(r) ==
    /\ vec[r] # <<>>
    /\ pc[r] \notin {"materials", "materials_recv"}
    /\ ~materials_xml.open
    /\ materials_xml.written = step[r] + 1

\* The density eval was given for the nuclide (lines 704-706), times 1.0e-24.
GivenDensity(r, mat, nuc) ==
    IF mat \in Range(burn_mat_list(r)) /\ IndexOf(nuc_dict, nuc) < n_nuc_burn
    THEN vec[r][IndexOf(burn_mat_list(r), mat) + 1][IndexOf(nuc_dict, nuc) + 1]
    ELSE number[r][mat][nuc]

\* The document has an entry of the nuclide in the element of the material.
HasEntry(mat, nuc) ==
    \E k \in 1..Len(materials_xml.doc) :
        /\ materials_xml.doc[k].kind = "material"
        /\ materials_xml.doc[k].id = mat
        /\ \E j \in 1..Len(materials_xml.doc[k].nuclides) :
               materials_xml.doc[k].nuclides[j].name = nuc

\* The number of warnings the rank printed about the nuclide in the material.
WarningsAbout(r, mat, nuc) ==
    Cardinality({j \in 1..Len(warnings[r]) :
                    warnings[r][j] = [nuc |-> nuc, mat |-> mat]})

\* The value the statepoint holds for a material, nuclide bin p and score.
TallyValue(mat, p, score) ==
    LET slab == CHOOSE s \in 1..Len(statepoint.materials) :
                    statepoint.materials[s] = int(mat)
        q    == CHOOSE q \in 1..Len(statepoint.reactions) :
                    statepoint.reactions[q] = score
    IN  statepoint.results[slab][(p - 1) * Len(statepoint.reactions) + q]

\* The rows and nuclide bins of a rank, as a sequence.
RECURSIVE SeqOfSet(_)
SeqOfSet(S) == IF S = {} THEN <<>>
               ELSE LET x == CHOOSE x \in S : TRUE IN <<x>> \o SeqOfSet(S \ {x})

Bins == {<<r, i, p>> \in Ranks \X (1..Cardinality(geometry.burn)) \X (1..n_nuc) :
            i <= Len(burn_mat_list(r)) /\ p <= Len(statepoint.nuclides)}

\* The fission power OpenMC measured: tally value times fission energy.
MeasuredPower ==
    LET bins == SeqOfSet(Bins)
    IN  SumSeq([k \in 1..Len(bins) |->
            TallyValue(burn_mat_list(bins[k][1])[bins[k][2]], bins[k][3], "fission")
            * fission_power(statepoint.nuclides[bins[k][3]])])

FAdd(a, b) ==
    IF Finite(a) /\ Finite(b) THEN Frac(a[1] * b[2] + b[1] * a[2], a[2] * b[2])
    ELSE <<0, 0>>

RECURSIVE FSum(_)
FSum(s) == IF Len(s) = 0 THEN <<0, 1>> ELSE FAdd(s[1], FSum(Tail(s)))

\* The position of a nuclide and of a score in reaction_rates.
RateIndex(nuc)   == CHOOSE a \in 0..(n_nuc - 1) : burn_nuc_to_ind[a + 1] = nuc
ScoreIndex(score) == CHOOSE b \in 0..(n_react - 1) : chain_reactions[b + 1] = score

\* The fission power the normalized rates give back: rate times atoms times
\* fission energy, over all ranks, rows and tallied nuclides.
ReconstructedPower ==
    LET bins == SeqOfSet(Bins)
    IN  FSum([k \in 1..Len(bins) |->
            LET r   == bins[k][1]
                mat == burn_mat_list(r)[bins[k][2]]
                nuc == statepoint.nuclides[bins[k][3]]
            IN  FMul(rates[r][bins[k][2] - 1][RateIndex(nuc)][ScoreIndex("fission")],
                     <<number[r][mat][nuc] * fission_power(nuc), 1>>)])

\* Every rank has normalized its rates in the same step, and the statepoint
\* of the step is still there.
AllNormalized ==
    /\ \A r \in Ranks : pc[r] = "barrier"
    /\ statepoint.exists

---------------------------------------------------------------------------
(* C2, as claimed: once every rank has normalized, the reconstructed       *)
(* fission power equals settings.power, whatever the tally results.        *)
C2_AnyResults == AllNormalized => ReconstructedPower = <<settings.power, 1>>

\* No nuclide without atoms in a material has a fission power tallied there.
NoPowerWithoutAtoms ==
    \A b \in Bins :
        LET mat == burn_mat_list(b[1])[b[2]]
            nuc == statepoint.nuclides[b[3]]
        IN  number[b[1]][mat][nuc] = 0 =>
                TallyValue(mat, b[3], "fission") * fission_power(nuc) = 0

(* C2, amended: once every rank has normalized, the reconstructed fission  *)
(* power equals settings.power, provided the measured fission power is not *)
(* zero and no nuclide without atoms in a material has a fission power     *)
(* tallied in that material.                                               *)
C2_Normalized ==
    (AllNormalized /\ MeasuredPower # 0 /\ NoPowerWithoutAtoms)
        => ReconstructedPower = <<settings.power, 1>>

\* Two ranks with fission power tallied in both, and atoms that are not 1.
C2_Witness ==
    /\ AllNormalized /\ MeasuredPower # 0 /\ NoPowerWithoutAtoms
    /\ size = 2
    /\ \A r \in Ranks : power_array[r + 1] > 0
    /\ \E r \in Ranks : number[r][burn_mat_list(r)[1]]["U235"] = 2
    /\ Len(statepoint.nuclides) = 2

---------------------------------------------------------------------------
(* C3, as claimed: for every owned material and every nuclide, a density   *)
(* in (-1e-21, 0) is stored as 0, has no entry and no warning; a density   *)
(* <= -1e-21 is stored as 0, has no entry and exactly one warning.         *)
C3_AnyNuclide ==
    \A r \in Ranks : DocumentOf(r) =>
        \A mat \in Range(mat_to_ind(r)), nuc \in Range(nuc_dict) :
            LET d == GivenDensity(r, mat, nuc)
            IN  /\ (WarnThreshold < d /\ d < 0) =>
                       /\ number[r][mat][nuc] = 0
                       /\ ~HasEntry(mat, nuc)
                       /\ WarningsAbout(r, mat, nuc) = 0
                /\ d <= WarnThreshold =>
                       /\ number[r][mat][nuc] = 0
                       /\ ~HasEntry(mat, nuc)
                       /\ WarningsAbout(r, mat, nuc) = 1

(* C3, amended: for every owned material and every participating nuclide,  *)
(* a density in [-1e-21, 0) is stored as 0, has no entry and no warning; a *)
(* density < -1e-21 is stored as 0, has no entry and exactly one warning;  *)
(* a nuclide that is not participating keeps its density, and has no entry *)
(* and no warning.                                                         *)
C3_Clamping ==
    \A r \in Ranks : DocumentOf(r) =>
        \A mat \in Range(mat_to_ind(r)), nuc \in Range(nuc_dict) :
            LET d == GivenDensity(r, mat, nuc)
            IN  IF nuc \in Range(cross_sections)
                THEN /\ (WarnThreshold <= d /\ d < 0) =>
                            /\ number[r][mat][nuc] = 0
                            /\ ~HasEntry(mat, nuc)
                            /\ WarningsAbout(r, mat, nuc) = 0
                     /\ d < WarnThreshold =>
                            /\ number[r][mat][nuc] = 0
                            /\ ~HasEntry(mat, nuc)
                            /\ WarningsAbout(r, mat, nuc) = 1
                ELSE /\ number[r][mat][nuc] = d
                     /\ ~HasEntry(mat, nuc)
                     /\ WarningsAbout(r, mat, nuc) = 0

\* Rank 1 was given U235 at the threshold, rank 0 below it, and I135 negative.
C3_Witness ==
    /\ size = 2
    /\ DocumentOf(0) /\ DocumentOf(1)
    /\ vec[1][1][2] = WarnThreshold
    /\ vec[0][1][2] < WarnThreshold
    /\ vec[0][1][3] < WarnThreshold
    /\ Len(warnings[0]) = 1 /\ Len(warnings[1]) = 0

---------------------------------------------------------------------------
(* C4: after a rank has ingested its rows and before it rescales them, the *)
(* entry of a tallied nuclide without atoms in the material is the tally   *)
(* value itself, the entry of a tallied nuclide with atoms is the tally    *)
(* value divided by the atoms, once, and every entry is finite.            *)

Ingested(r) == pc[r] \in {"power_recv", "bcast", "scale"} /\ statepoint.exists

C4_PerAtom ==
    \A r \in Ranks : Ingested(r) =>
        \A i \in 1..Len(burn_mat_list(r)), p \in 1..Len(statepoint.nuclides),
           q \in 1..Len(statepoint.reactions) :
            LET mat   == burn_mat_list(r)[i]
                nuc   == statepoint.nuclides[p]
                score == statepoint.reactions[q]
                atoms == number[r][mat][nuc]
                rate  == rates[r][i - 1][RateIndex(nuc)][ScoreIndex(score)]
            IN  /\ Finite(rate)
                /\ atoms = 0 => rate = <<TallyValue(mat, p, score), 1>>
                /\ atoms # 0 => rate[1] * atoms = TallyValue(mat, p, score) * rate[2]

\* A rank has ingested a row with a nuclide without atoms and a nonzero
\* fission tally, and a nuclide with two atoms.
C4_Witness ==
    \E r \in Ranks :
        /\ Ingested(r)
        /\ Len(statepoint.nuclides) = 2
        /\ \E i \in 1..Len(burn_mat_list(r)) :
             /\ number[r][burn_mat_list(r)[i]]["U235"] = 0
             /\ TallyValue(burn_mat_list(r)[i], 2, "fission") = 2
        /\ \E i \in 1..Len(burn_mat_list(r)) :
             number[r][burn_mat_list(r)[i]]["U235"] = 2

---------------------------------------------------------------------------
(* C5: a rank that has left the wait for the completion signal of a step   *)
(* finds the run of OpenMC of that step returned (and no later run         *)
(* started); the statepoint it opens is that of the step's run; the signal *)
(* its irecv obtained, and any signal in flight to it, is that of the step *)
(* it is in.                                                               *)

PastSignal ==
    {"unpack", "ingest", "failed", "power_recv", "bcast", "scale", "barrier", "return"}

C5_AfterRun ==
    \A r \in Ranks :
        /\ pc[r] \in PastSignal =>
               /\ sim.state = "idle"
               /\ sim.runs = step[r] + 1
               /\ r # 0 => sig[r] = step[r]
        /\ pc[r] \in {"ingest", "power_recv", "bcast", "scale"} =>
               statepoint.exists /\ statepoint.run = step[r]
        /\ \A k \in 1..Len(chan[<<0, r>>]) :
               chan[<<0, r>>][k].tag = 0 =>
                   chan[<<0, r>>][k].step = step[r] /\ pc[r] = "test"

\* In its second step, rank 1 has opened the statepoint after the signal.
C5_Witness ==
    /\ size = 2
    /\ step[1] = 1
    /\ pc[1] = "ingest"
    /\ sig[1] = 1
    /\ pc[0] = "signal"

---------------------------------------------------------------------------
(* C6: a rank that is about to rescale or has rescaled its rates in a step *)
(* finds every rank past the ingestion of its rows of that step, and the   *)
(* power it rescales with is the sum of the fission powers of the rows of  *)
(* all ranks, each counted once.                                           *)

FinishedIngesting(q, s) ==
    \/ step[q] > s
    \/ step[q] = s /\ pc[q] \in {"power_recv", "bcast", "scale", "barrier", "return"}

C6_AllIngested ==
    \A r \in Ranks :
        /\ pc[r] \in {"scale", "barrier", "return"} =>
               \A q \in Ranks : FinishedIngesting(q, step[r])
        /\ pc[r] = "scale" =>
               /\ statepoint.exists
               /\ power[r] = MeasuredPower

\* Two ranks with different fission powers; rank 1 is about to rescale.
C6_Witness ==
    /\ size = 2
    /\ pc[1] = "scale"
    /\ power_array[1] > 0 /\ power_array[2] > power_array[1]
    /\ power[1] = power_array[1] + power_array[2]

---------------------------------------------------------------------------
(* C7: after a rank has rescaled in a step, every entry of a tallied       *)
(* nuclide is the entry it ingested (the tally value, per atom when the    *)
(* nuclide has atoms) times settings.power over the fission power measured *)
(* in the run of that step, and all ranks hold the same power.             *)

C7_OneFactor ==
    \A r \in Ranks : (pc[r] = "barrier" /\ statepoint.exists) =>
        /\ statepoint.run = step[r]
        /\ \A q \in Ranks : (pc[q] \in {"scale", "barrier"}) => power[q] = power[r]
        /\ \A i \in 1..Len(burn_mat_list(r)), p \in 1..Len(statepoint.nuclides),
              s \in 1..Len(statepoint.reactions) :
               LET mat   == burn_mat_list(r)[i]
                   nuc   == statepoint.nuclides[p]
                   score == statepoint.reactions[s]
                   atoms == IF number[r][mat][nuc] = 0 THEN 1 ELSE number[r][mat][nuc]
                   rate  == rates[r][i - 1][RateIndex(nuc)][ScoreIndex(score)]
               IN  IF MeasuredPower = 0 THEN ~Finite(rate)
                   ELSE /\ Finite(rate)
                        /\ rate[1] * MeasuredPower * atoms
                               = settings.power * TallyValue(mat, p, score) * rate[2]

\* The second step of two ranks, with a measured power of 6 = 2 + 4.
C7_Witness ==
    /\ size = 2
    /\ AllNormalized
    /\ step[0] = 1 /\ step[1] = 1
    /\ MeasuredPower = 6
    /\ power_array[1] # power_array[2]

---------------------------------------------------------------------------
(* The tally request of the running step. *)

TallyWritten ==
    /\ tallies_xml.exists
    /\ pc[0] \in {"settings", "call", "calling", "signal", "unpack", "ingest",
                  "power_recv", "scale"}

\* The rank holds the nuclide with a nonzero total over its materials.
Holds(r, nuc) ==
    SumSeq([k \in 1..Len(mat_burn_lists[r + 1] \o mat_not_burn_lists[r + 1]) |->
               number[r][(mat_burn_lists[r + 1] \o mat_not_burn_lists[r + 1])[k]][nuc]]) # 0

NoRepeats(list) == \A j, k \in 1..Len(list) : list[j] = list[k] => j = k

AllReactionsAllBurnable ==
    /\ NoRepeats(tallies_xml.scores)
    /\ Range(tallies_xml.scores) = Range(chain_reactions)
    /\ NoRepeats(tallies_xml.mats)
    /\ Range(tallies_xml.mats) = geometry.burn

---------------------------------------------------------------------------
(* C9: in every step rank 0 opens materials.xml for writing once; the      *)
(* closed document is the header, the elements of the materials of rank    *)
(* 0, 1, ... in rank order, each written from the fragment of the rank     *)
(* that owns the material, and the footer; every material of the geometry  *)
(* has exactly one element.                                                *)

C9_OneDocument ==
    /\ materials_xml.written =
           step[0] + (IF pc[0] \in {"idle", "materials"} THEN 0 ELSE 1)
    /\ (~materials_xml.open /\ materials_xml.written >= 1) =>
           LET doc == materials_xml.doc
               n   == Len(doc)
           IN  /\ n >= 2
               /\ doc[1] = header /\ doc[n] = footer
               /\ \A k \in 2..(n - 1) :
                      /\ doc[k].kind = "material"
                      /\ doc[k].id \in Range(mat_burn_lists[doc[k].by + 1])
                                       \cup Range(mat_not_burn_lists[doc[k].by + 1])
                      /\ \A j \in 2..k : doc[j].by <= doc[k].by
               /\ [k \in 1..(n - 2) |-> doc[k + 1].id] =
                      Concat([r \in 1..size |->
                                 mat_burn_lists[r] \o mat_not_burn_lists[r]])
               /\ \A m \in geometry.burn \cup geometry.not_burn :
                      Cardinality({k \in 1..n : doc[k].kind = "material"
                                                /\ doc[k].id = str(m)}) = 1

\* The document of the second step of two ranks: three elements.
C9_Witness ==
    /\ size = 2
    /\ ~materials_xml.open
    /\ materials_xml.written = 2
    /\ Len(materials_xml.doc) = 5
    /\ materials_xml.doc[3].by = 0 /\ materials_xml.doc[4].by = 1

---------------------------------------------------------------------------
(* C10: on every rank, the seed eval returned in a step is the seed of the *)
(* settings document written in that step.                                 *)
C10_SeedOnEveryRank ==
    \A r \in Ranks :
        (ret[r].step >= 0 /\ settings_xml.exists /\ settings_xml.step = ret[r].step)
            => ret[r].seed = settings_xml.seed

---------------------------------------------------------------------------
(* C11: extract_mat_ids exits exactly if a burnable material of the        *)
(* geometry has no volume; the message then lists the ids of the burnable  *)
(* materials without a volume, each once and no other id; and while rank 0 *)
(* has exited nothing has been sent or broadcast, no rank holds any        *)
(* assignment and no rank has run extract_number.                          *)

BurnableWithoutVolume == geometry.burn \cap geometry.no_volume

NothingDistributed ==
    /\ \A p \in Ranks \X Ranks : chan[p] = <<>>
    /\ \A r \in Ranks :
           /\ bq[r] = <<>>
           /\ held[r].has = {}
           /\ ipc[r] \in {"extract", "recv_burn"}
           /\ number[r] = <<>>

C11_MissingVolume ==
    /\ ppc # "start" => (ppc = "exit" <=> BurnableWithoutVolume # {})
    /\ ppc = "exit" =>
           /\ Range(need_vol) = {str(m) : m \in BurnableWithoutVolume}
           /\ Len(need_vol) = Cardinality(BurnableWithoutVolume)
    /\ BurnableWithoutVolume # {} => NothingDistributed

\* Three ranks; both burnable materials lack a volume, one of them fills two
\* cells; the non-burnable material has a volume.
C11_Witness ==
    /\ ppc = "exit"
    /\ size = 3
    /\ geometry.cells = <<2, 3, 10, 2>>
    /\ geometry.no_volume = {2, 10}
    /\ need_vol = <<str(2), str(10)>>

---------------------------------------------------------------------------
(* C12: in every step OpenMC is called once, by rank 0: the calls made are *)
(* one per step rank 0 has finished, plus one if it is past line 443 in    *)
(* the running step; the completion signal is sent once per call to every  *)
(* other rank and never to rank 0; and once a run has returned, with any   *)
(* exit status, every rank gets to unpack_tallies_and_normalize in that    *)
(* step.                                                                   *)

BeforeCall ==
    {"idle", "materials", "materials_recv", "materials_barrier", "tally_recv",
     "settings", "call"}

OneCallOneSignal ==
    /\ count.call = step[0] + (IF pc[0] \in BeforeCall THEN 0 ELSE 1)
    /\ sim.runs = count.call - (IF sim.state = "running" THEN 1 ELSE 0)
    /\ count.signal[0] = 0
    /\ \A r \in Ranks \ {0} :
           count.signal[r] =
               step[0] + (IF \/ pc[0] \in BeforeCall \cup {"calling"}
                             \/ pc[0] = "signal" /\ ri <= r
                          THEN 0 ELSE 1)

C12_OneCall ==
    /\ []OneCallOneSignal
    /\ \A r \in 0..(MaxSize - 1), k \in 0..(MaxSteps - 1) :
           (r < size /\ sim.state = "idle" /\ sim.runs = k + 1)
               ~> (r < size /\ (step[r] > k \/ (step[r] = k /\ pc[r] \in PastSignal)))

\* The second run exited with a nonzero status; the last rank has taken its
\* signal and is about to open the statepoint.
C12_Witness ==
    /\ size = MaxSize
    /\ sim.status = 1
    /\ sim.runs = 2
    /\ count.call = 2
    /\ count.signal[size - 1] = 2
    /\ pc[size - 1] = "unpack"
    /\ step[size - 1] = 1

---------------------------------------------------------------------------
(* C13: the statepoint has been removed once per step rank 0 has finished, *)
(* plus once if rank 0 is past line 465 in the running step; when rank 0   *)
(* is past the removal every rank has returned from                        *)
(* unpack_tallies_and_normalize in that step; a rank that opens or holds   *)
(* the statepoint open finds the file of its step, not yet removed; and    *)
(* while OpenMC runs, the statepoint of every earlier run has been removed.*)

\* The rank holds the statepoint open (line 733 to the return of line 814).
Reading == {"ingest", "power_recv", "bcast", "scale"}

Normalized(r, k) ==
    \/ step[r] > k
    \/ step[r] = k /\ pc[r] \in {"barrier", "return"}

C13_RemovedOnce ==
    /\ count.remove = step[0] + (IF pc[0] = "return" THEN 1 ELSE 0)
    /\ pc[0] = "return" => \A r \in Ranks : Normalized(r, step[0])
    /\ \A r \in Ranks :
           /\ pc[r] \in Reading \cup {"unpack"} => count.remove = step[r]
           /\ pc[r] \in Reading => statepoint.exists /\ statepoint.run = step[r]
    /\ sim.state = "running" => ~statepoint.exists /\ count.remove = sim.runs

\* The second step of MaxSize ranks: rank 0 has removed the statepoint, the
\* last rank has not left the barrier yet.
C13_Witness ==
    /\ size = MaxSize
    /\ step[0] = 1
    /\ pc[0] = "return"
    /\ count.remove = 2
    /\ ~statepoint.exists
    /\ pc[size - 1] = "barrier"

---------------------------------------------------------------------------
(* C14: a rank that has opened the statepoint and not yet ingested a row   *)
(* holds rates that are all zero; when it has returned from                *)
(* unpack_tallies_and_normalize, every entry of its rates is a function of *)
(* the statepoint of the step and of the atoms of the step: the normalized *)
(* tally value for a nuclide that the statepoint tallies, and zero for     *)
(* every other nuclide, whatever the entry was after the step before.      *)

\* The entry of row i (material mat), nuclide index a and reaction index b
\* that the statepoint of the step determines.
FreshRate(r, mat, a, b) ==
    LET nuc == burn_nuc_to_ind[a + 1]
    IN  IF nuc \in Range(statepoint.nuclides)
        THEN LET p     == IndexOf(statepoint.nuclides, nuc) + 1
                 value == TallyValue(mat, p, chain_reactions[b + 1])
                 atoms == number[r][mat][nuc]
             IN  FMul(IF atoms = 0 THEN <<value, 1>> ELSE FDiv(<<value, 1>>, <<atoms, 1>>),
                      FDiv(<<settings.power, 1>>, <<MeasuredPower, 1>>))
        ELSE <<0, 1>>

C14_FreshRates ==
    \A r \in Ranks :
        /\ pc[r] = "ingest" =>
               \A i \in DOMAIN rates[r], a \in 0..(n_nuc - 1), b \in 0..(n_react - 1) :
                   rates[r][i][a][b] = <<0, 1>>
        /\ (pc[r] = "barrier" /\ statepoint.exists) =>
               \A i \in DOMAIN rates[r], a \in 0..(n_nuc - 1), b \in 0..(n_react - 1) :
                   rates[r][i][a][b] = FreshRate(r, burn_mat_list(r)[i + 1], a, b)

\* The first step tallied Xe135 in the first material of the last rank and
\* returned nonzero rates for it; the second step does not tally Xe135.
C14_Witness ==
    /\ size = MaxSize
    /\ step[size - 1] = 1
    /\ pc[size - 1] = "barrier"
    /\ statepoint.exists
    /\ "Xe135" \notin Range(statepoint.nuclides)
    /\ ret[size - 1].step = 0
    /\ \A b \in 0..(n_react - 1) :
           /\ ret[size - 1].rates[0][RateIndex("Xe135")][b][1] # 0
           /\ rates[size - 1][0][RateIndex("Xe135")][b] = <<0, 1>>

---------------------------------------------------------------------------
(* C15: the nuc_dict that extract_mat_ids returns has one item for every   *)
(* nuclide of the chain or of a material of the geometry and no other; its *)
(* indices are 0..N-1, each once; a chain nuclide has its chain index; the *)
(* other nuclides follow in the string order of their names; and the       *)
(* dictionary is iterated in the order of the indices.                     *)

AllNuclides ==
    Range(chain_nuclides) \cup UNION {geometry.nuclides[m] : m \in Range(geometry.cells)}

C15_NuclideIndex ==
    ppc = "done" =>
        LET N == Cardinality(AllNuclides)
        IN  /\ Len(nuc_to_ind) = N
            /\ {nuc_to_ind[k][1] : k \in 1..N} = AllNuclides
            /\ {nuc_to_ind[k][2] : k \in 1..N} = 0..(N - 1)
            /\ \A k \in 1..Len(chain_nuclides) :
                   <<chain_nuclides[k], k - 1>> \in Range(nuc_to_ind)
            /\ \A j, k \in 1..N :
                   (/\ nuc_to_ind[j][1] \notin Range(chain_nuclides)
                    /\ nuc_to_ind[k][1] \notin Range(chain_nuclides)) =>
                       (StrLess(NameKey(nuc_to_ind[j][1]), NameKey(nuc_to_ind[k][1]))
                            <=> nuc_to_ind[j][2] < nuc_to_ind[k][2])
            /\ Len(nuc_dict) = N
            /\ \A k \in 1..N : <<nuc_dict[k], k - 1>> \in Range(nuc_to_ind)

\* A geometry with U238, U235, O16, H1 and B10: four names are appended to
\* the three of the chain, U235 keeps its chain index.
C15_Witness ==
    /\ ppc = "done"
    /\ nuc_to_ind = <<<<"Xe135", 0>>, <<"U235", 1>>, <<"I135", 2>>, <<"B10", 3>>,
                      <<"H1", 4>>, <<"O16", 5>>, <<"U238", 6>>>>

---------------------------------------------------------------------------
(* C16: what extract_mat_ids has returned for the geometry - the lists of  *)
(* every rank, nuc_dict and mat_tally_ind - is what it returns for the     *)
(* same materials and the same number of ranks with the cells iterated in  *)
(* any other order.                                                        *)

C16_Deterministic ==
    ppc = "done" =>
        \A cells \in orders(Range(geometry.cells)) :
            /\ returned(cells).mat_burn_lists = mat_burn_lists
            /\ returned(cells).mat_not_burn_lists = mat_not_burn_lists
            /\ returned(cells).nuc_dict = nuc_to_ind
            /\ keys_of(returned(cells).nuc_dict) = nuc_dict
            /\ returned(cells).mat_tally_ind = mat_tally_ind

\* Two ranks; the cells were iterated in the order 10, 3, 2, against the
\* order of the ids, and material "10" went to rank 0.
C16_Witness ==
    /\ ppc = "done"
    /\ size = 2
    /\ geometry.cells = <<10, 3, 2>>
    /\ geometry.burn = {2, 10}
    /\ mat_burn_lists = <<<<str(10)>>, <<str(2)>>>>
    /\ mat_tally_ind = <<str(10), str(2)>>

---------------------------------------------------------------------------
(* C17: in every step a rank joins no barrier between the end of its wait  *)
(* for the completion signal and the end of unpack_tallies_and_normalize:  *)
(* it opens the statepoint as soon as it has itself found the run of the   *)
(* step returned, while other ranks may still be polling. The one barrier  *)
(* after the signal is joined after the normalization, and a rank that has *)
(* left it finds that every rank has joined it.                            *)

\* Rank q has left the wait for the completion signal of step k.
Observed(q, k) ==
    \/ step[q] > k
    \/ step[q] = k /\ pc[q] \in PastSignal

---------------------------------------------------------------------------
(* C18: while OpenMC runs, rank 0 is inside call() and every other rank is *)
(* in the loop of Test and sleep on its irecv: no rank is in a barrier, in *)
(* a broadcast or in a blocking receive, and no broadcast is under way.    *)
(* The completion reaches a rank as a message with tag 0 that rank 0 has   *)
(* sent to that rank after the run.                                        *)

\* The positions where a rank is inside comm.barrier(), comm.bcast() or
\* comm.recv().
Waiting ==
    {"materials_recv", "materials_barrier", "tally_recv", "power_recv", "bcast",
     "barrier"}

C18_NoCollectiveWhileRunning ==
    /\ sim.state = "running" =>
           /\ pc[0] = "calling"
           /\ \A r \in Ranks :
                  /\ pc[r] \notin Waiting
                  /\ r # 0 => /\ pc[r] = "test"
                              /\ ~Test(r)
                              /\ count.signal[r] = step[r]
                  /\ bq[r] = <<>>
    /\ \A r \in Ranks \ {0} :
           pc[r] \in PastSignal =>
               /\ count.signal[r] = step[r] + 1
               /\ sig[r] = step[r]

\* OpenMC runs for the second step; both other ranks poll.
C18_Witness ==
    /\ size = MaxSize
    /\ sim.state = "running"
    /\ sim.runs = 1
    /\ pc[0] = "calling"
    /\ \A r \in 1..(size - 1) : pc[r] = "test" /\ step[r] = 1

---------------------------------------------------------------------------
(* C19: while OpenMC runs in a step, materials.xml is closed and holds the *)
(* header, the fragment of every rank built from the atoms of that step    *)
(* and the footer; tallies.xml lists the nuclides of the nuc_sets of all   *)
(* ranks of that step and is what OpenMC was started with; settings.xml    *)
(* was written in that step; no rank is in generate_materials_xml,         *)
(* generate_tally_xml or generate_settings_xml; and no rank has the        *)
(* statepoint open or is about to open it.                                 *)

\* The positions of eval from line 438 up to the return of line 440.
Writing == {"materials", "materials_recv", "materials_barrier", "tally_recv", "settings"}

\* The nuclides the ranks hold with a positive sum in the step.
AllNucSets == UNION {local_nuc_set(r) : r \in Ranks}

C19_InputsComplete ==
    sim.state = "running" =>
        /\ ~materials_xml.open
        /\ materials_xml.written = step[0] + 1
        /\ materials_xml.doc =
               <<header>> \o Concat([k \in 1..size |-> xml_string(k - 1)]) \o <<footer>>
        /\ tallies_xml.exists
        /\ sim.tally = tallies_xml
        /\ LET listed(nuc) == nuc \in AllNucSets /\ tallied(nuc)
           IN  tallies_xml.nuclides = SelectSeq(nuc_dict, listed)
        /\ settings_xml.exists
        /\ settings_xml.step = step[0]
        /\ \A r \in Ranks :
               /\ step[r] = step[0]
               /\ pc[r] \notin Writing
               /\ pc[r] \notin Reading \cup {"unpack"}

\* OpenMC runs for the second step of two ranks, on a document of three
\* materials and a tally of at least one nuclide.
C19_Witness ==
    /\ size = 2
    /\ sim.state = "running"
    /\ step[0] = 1
    /\ Len(materials_xml.doc) = 5
    /\ materials_xml.doc[4].by = 1
    /\ Len(tallies_xml.nuclides) >= 1
    /\ settings_xml.step = 1

---------------------------------------------------------------------------
(* C20: a rank that has reached extract_number finds that rank 0 has left  *)
(* the loop that sends the two lists and nuc_dict to every other rank, and *)
(* holds its own five objects: its two lists are those extract_mat_ids     *)
(* made for its rank, and its nuc_dict, volume and mat_tally_ind are those *)
(* of rank 0. A rank has numbers only once it has run extract_number.      *)

C20_DistributedFirst ==
    \A r \in Ranks :
        /\ ipc[r] \in {"extract_number", "constructed"} =>
               /\ ppc = "done"
               /\ ~in_range(ri)
               /\ ipc[0] # "extract"
               /\ held[r].has = {"mat_burn", "mat_not_burn", "nuc_dict", "volume",
                                 "mat_tally_ind"}
               /\ held[r].mat_burn = mat_burn_lists[r + 1]
               /\ held[r].mat_not_burn = mat_not_burn_lists[r + 1]
               /\ held[r].nuc_dict = held[0].nuc_dict /\ held[r].nuc_dict = nuc_dict
               /\ held[r].volume = held[0].volume /\ held[r].volume = volume
               /\ held[r].mat_tally_ind = held[0].mat_tally_ind
               /\ held[r].mat_tally_ind = mat_tally_ind
        /\ number[r] # <<>> => ipc[r] = "constructed"
        /\ ipc[r] = "constructed" =>
               DOMAIN number[r] = Range(mat_burn_lists[r + 1] \o mat_not_burn_lists[r + 1])

\* Three ranks, two burnable materials and one that is not: every rank is
\* constructed, and rank 2, which has no burnable material, holds the
\* mat_tally_ind and the volumes of both.
C20_Witness ==
    /\ size = 3
    /\ geometry.burn = {2, 10} /\ geometry.not_burn = {3}
    /\ \A r \in Ranks : ipc[r] = "constructed"
    /\ held[1].mat_burn = <<str(2)>>
    /\ held[2].mat_burn = <<>>
    /\ held[2].mat_tally_ind = <<str(10), str(2)>>
    /\ Len(held[2].volume) = 2
    /\ Len(held[2].nuc_dict) >= 3

---------------------------------------------------------------------------
(* C21: on every rank, reaction_rates has one row for each burnable        *)
(* material of the rank; the vector of total_density_list has one element  *)
(* for each, and is the vector set_density was given; and before the       *)
(* rescaling, row i holds the values the statepoint has in the slab whose  *)
(* bin is the id of material i of mat_burn, divided by the atoms that      *)
(* element i of the vector gave that material - whatever the position of   *)
(* the slab.                                                               *)

\* The atoms that element i of the vector gives to a nuclide of the chain.
VectorAtoms(r, i, nuc) == vec[r][i + 1][IndexOf(nuc_dict, nuc) + 1]

C21_RowIsMaterial ==
    \A r \in Ranks :
        /\ DOMAIN rates[r] = 0..(Len(mat_burn_lists[r + 1]) - 1)
        /\ Len(total_density_list(r)) = Len(mat_burn_lists[r + 1])
        /\ pc[r] = "materials" => total_density_list(r) = vec[r]
        /\ pc[r] \in {"power_recv", "bcast", "scale"} =>
               \A i \in DOMAIN rates[r], a \in 0..(n_nuc - 1), b \in 0..(n_react - 1) :
                   LET mat == mat_burn_lists[r + 1][i + 1]
                       nuc == burn_nuc_to_ind[a + 1]
                   IN  IF nuc \in Range(statepoint.nuclides)
                       THEN LET p     == IndexOf(statepoint.nuclides, nuc) + 1
                                value == TallyValue(mat, p, chain_reactions[b + 1])
                                atoms == VectorAtoms(r, i, nuc)
                            IN  rates[r][i][a][b] =
                                    IF atoms = 0 THEN <<value, 1>>
                                    ELSE FDiv(<<value, 1>>, <<atoms, 1>>)
                       ELSE rates[r][i][a][b] = <<0, 1>>

\* Rank 1 of two has ingested its one row, of material 2, which is the
\* second slab of the statepoint, and the two slabs differ.
C21_Witness ==
    /\ size = 2
    /\ pc[1] = "bcast"
    /\ mat_burn_lists[2] = <<str(2)>>
    /\ statepoint.materials = <<10, 2>>
    /\ statepoint.results[1] # statepoint.results[2]
    /\ \E a \in 0..(n_nuc - 1) : rates[1][0][a][fission_ind] # <<0, 1>>

---------------------------------------------------------------------------
(* C22: in a row that a rank has ingested and not yet rescaled, the value  *)
(* at flat position (p - 1) * (number of reactions of the statepoint) + q  *)
(* of the material's slab, divided by the atoms of the nuclide unless they *)
(* are 0, is the entry at [index of the p-th nuclide of the statepoint in  *)
(* burn_nuc_to_ind, index of the q-th reaction in the chain's reactions];  *)
(* every other entry of the row is 0.                                      *)

\* The flat vector of the statepoint for the material.
Slab(mat) ==
    statepoint.results[CHOOSE s \in 1..Len(statepoint.materials) :
                           statepoint.materials[s] = int(mat)]

\* The entry the expansion stores for bins p and q of the material, per atom.
Stored(r, mat, p, q) ==
    LET value == Slab(mat)[(p - 1) * Len(statepoint.reactions) + q]
        atoms == number[r][mat][statepoint.nuclides[p]]
    IN  IF atoms = 0 THEN <<value, 1>> ELSE FDiv(<<value, 1>>, <<atoms, 1>>)

\* The position of a nuclide in nuc_dict, the index of number.nuc_to_ind.
GlobalIndex(nuc) == CHOOSE k \in 0..(Len(nuc_dict) - 1) : nuc_dict[k + 1] = nuc

\* The rank has stored its rows and has not rescaled them.
NotYetScaled == {"power_recv", "bcast", "scale"}

\* The statement with the index of nuc_dict for the nuclide.
C22_GlobalIndex ==
    \A r \in Ranks :
        pc[r] \in NotYetScaled =>
            \A i \in DOMAIN rates[r] :
                \A p \in 1..Len(statepoint.nuclides), q \in 1..Len(statepoint.reactions) :
                    /\ GlobalIndex(statepoint.nuclides[p]) \in DOMAIN rates[r][i]
                    /\ rates[r][i][GlobalIndex(statepoint.nuclides[p])]
                                  [ScoreIndex(statepoint.reactions[q])]
                           = Stored(r, burn_mat_list(r)[i + 1], p, q)

C22_Expanded ==
    \A r \in Ranks :
        pc[r] \in NotYetScaled =>
            \A i \in DOMAIN rates[r] :
                /\ \A p \in 1..Len(statepoint.nuclides), q \in 1..Len(statepoint.reactions) :
                       rates[r][i][RateIndex(statepoint.nuclides[p])]
                                  [ScoreIndex(statepoint.reactions[q])]
                           = Stored(r, burn_mat_list(r)[i + 1], p, q)
                /\ \A a \in 0..(n_nuc - 1), b \in 0..(n_react - 1) :
                       (~\E p \in 1..Len(statepoint.nuclides),
                            q \in 1..Len(statepoint.reactions) :
                              /\ RateIndex(statepoint.nuclides[p]) = a
                              /\ ScoreIndex(statepoint.reactions[q]) = b)
                           => rates[r][i][a][b] = <<0, 1>>

\* The statepoint tallies Xe135 and U235 in this order, the rates hold U235
\* at 0 and Xe135 at 1, and the row holds different values for the two.
C22_Witness ==
    /\ pc[0] \in NotYetScaled
    /\ statepoint.nuclides = <<"Xe135", "U235">>
    /\ RateIndex("Xe135") = 1 /\ RateIndex("U235") = 0
    /\ 0 \in DOMAIN rates[0]
    /\ rates[0][0][1][fission_ind] = Stored(0, burn_mat_list(0)[1], 1, 2)
    /\ rates[0][0][1][fission_ind] # rates[0][0][0][fission_ind]

---------------------------------------------------------------------------
(* C23: in a whole run where no burnable material lacks a volume and every *)
(* run of OpenMC returns, every rank is eventually constructed and every   *)
(* call of eval eventually ends on every rank: it returns, unless the run  *)
(* of OpenMC of the step has left no statepoint, and then the call raises  *)
(* at the open of the statepoint on every rank. When the run has ended     *)
(* every message sent has been received, every broadcast value has been    *)
(* taken, and all ranks have entered the same number of barriers.          *)

\* Every rank has returned from its last call of eval.
AllReturned ==
    \A r \in Ranks :
        /\ ipc[r] = (IF dom.info THEN "ready" ELSE "constructed")
        /\ pc[r] = "idle"
        /\ step[r] = dom.steps

\* The run of OpenMC of a step has left no statepoint and eval has raised on
\* every rank in that step.
AllRaised ==
    /\ ~statepoint.exists
    /\ \A r \in Ranks :
           /\ pc[r] = "failed"
           /\ step[r] = step[0]
           /\ sim.runs = step[r] + 1

\* Nothing is left in flight.
AllMatched ==
    /\ \A p \in Ranks \X Ranks : chan[p] = <<>>
    /\ \A r \in Ranks : bq[r] = <<>> /\ bar[r] = bar[0]

\* The statement where every call of eval returns.
C23_AlwaysReturns ==
    BurnableWithoutVolume = {} => <>(AllReturned /\ AllMatched)

C23_NoDeadlock ==
    /\ BurnableWithoutVolume = {} => <>((AllReturned \/ AllRaised) /\ AllMatched)
    /\ [](\A r \in 0..(MaxSize - 1) :
             (r < size /\ pc[r] = "failed") => ~statepoint.exists /\ sim.status # 0)

\* Two ranks and one burnable material: rank 1 owns no burnable material,
\* and both ranks have returned from their last eval with nothing in flight.
C23_Witness ==
    /\ size = 2
    /\ geometry.burn = {2}
    /\ mat_burn_lists = <<<<str(2)>>, <<>>>>
    /\ dom.info
    /\ AllReturned
    /\ AllMatched
    /\ count.call = dom.steps

---------------------------------------------------------------------------
(* C24: in whole runs, whenever a receive can take a message, the message  *)
(* it takes is of the kind the receiving statement expects and, in eval,   *)
(* of the step the receiving rank is in: rank 0 takes a fragment in        *)
(* generate_materials_xml, a nuc_set in generate_tally_xml, a power in     *)
(* unpack_tallies_and_normalize and a volume map in get_results_info, all  *)
(* sent with the tag of the sending rank; another rank takes its two lists *)
(* and nuc_dict in __init__ and the signal of its step in eval, the first  *)
(* list and the signal both sent with tag 0. No two messages from one rank *)
(* to another with the same tag are in flight together.                    *)

\* The message that the receive from src with the tag takes at dst, if one
\* has arrived, is of the kind, and of step s of eval.
Takes(src, dst, tag, kind, s) ==
    probe(src, dst, tag) =>
        /\ recv(src, dst, tag).kind = kind
        /\ recv(src, dst, tag).step = s

\* The kind of object a receive of __init__ expects.
InitKind(at) ==
    CASE at = "recv_burn" -> "mat_burn"
      [] at = "recv_not_burn" -> "mat_not_burn"
      [] at = "recv_nuc_dict" -> "nuc_dict"

C24_RightMessage ==
    /\ (pc[0] = "materials_recv" /\ materials_range(ri)) => Takes(ri, 0, ri, "fragment", step[0])
    /\ (pc[0] = "tally_recv" /\ tally_range(ri)) => Takes(ri, 0, ri, "nuc_set", step[0])
    /\ (pc[0] = "power_recv" /\ ri < size) => Takes(ri, 0, ri, "power", step[0])
    /\ (ipc[0] = "info_recv" /\ ri < size) => Takes(ri, 0, ri, "volume", 0)
    /\ \A r \in Ranks \ {0} :
           /\ ipc[r] \in {"recv_burn", "recv_not_burn", "recv_nuc_dict"} =>
                  Takes(0, r, init_tag(ipc[r]), InitKind(ipc[r]), 0)
           /\ pc[r] = "test" => Takes(0, r, 0, "signal", step[r])
    /\ \A p \in Ranks \X Ranks :
           \A k, l \in 1..Len(chan[p]) : chan[p][k].tag = chan[p][l].tag => k = l
    /\ \A r \in Ranks :
           /\ \A m \in held[r].info_volume : m[1] \in Range(mat_tally_ind)
           /\ \A nuc \in nuc_set[r] : nuc \in Range(nuc_dict)
           /\ "mat_burn" \in held[r].has => held[r].mat_burn = mat_burn_lists[r + 1]
    /\ \A k \in 1..Len(materials_xml.doc) :
           materials_xml.doc[k].kind \in {"header", "material", "footer"}

\* In its second step rank 0 is about to take the power of rank 1, sent
\* with tag 1 as were the volume map, the fragments and the nuc_sets before.
C24_Witness ==
    /\ size = 2
    /\ dom.info
    /\ held[0].info_volume # {}
    /\ step[0] = 1
    /\ pc[0] = "power_recv"
    /\ ri = 1
    /\ probe(1, 0, 1)
    /\ recv(1, 0, 1).kind = "power"
    /\ sig[1] = 1
    /\ "mat_burn" \in held[1].has

---------------------------------------------------------------------------
(* C25: every nuclide that tallies.xml requests, and so every nuclide of   *)
(* the statepoint, is a chain nuclide with cross sections and has an index *)
(* in burn_nuc_to_ind and in nuc_dict; every score is a reaction of the    *)
(* chain and fission is one; and the id of every burnable material of      *)
(* every rank is, as a string, one of the material bins. So none of the    *)
(* lookups of lines 748-749, 758, 769 and 781 fails.                       *)

\* The lookups of the ingestion succeed on a tally with these bins.
LookupsSucceed(tally_nuclides, tally_scores, tally_mats) ==
    /\ \A nuc \in Range(tally_nuclides) :
           /\ nuc \in Range(chain_nuclides)
           /\ nuc \in participating_nuclides
           /\ nuc \in Range(burn_nuc_to_ind)
           /\ nuc \in Range(nuc_dict)
    /\ \A score \in Range(tally_scores) : score \in Range(chain_reactions)
    /\ "fission" \in Range(chain_reactions)
    /\ \A r \in Ranks : \A mat \in Range(burn_mat_list(r)) :
           /\ mat \in {str(m) : m \in Range(tally_mats)}
           /\ mat \in DOMAIN number[r]

C25_LookupsSucceed ==
    /\ tallies_xml.exists =>
           LookupsSucceed(tallies_xml.nuclides, tallies_xml.scores, tallies_xml.mats)
    /\ statepoint.exists =>
           /\ LookupsSucceed(statepoint.nuclides, statepoint.reactions, statepoint.materials)
           /\ statepoint.nuclides = tallies_xml.nuclides
           /\ statepoint.reactions = tallies_xml.scores
           /\ statepoint.materials = tallies_xml.mats
           /\ \A s \in 1..Len(statepoint.results) :
                  Len(statepoint.results[s]) =
                      Len(statepoint.nuclides) * Len(statepoint.reactions)

\* Rank 1 of two has ingested the row of material 2 from a statepoint of two
\* nuclides, while it also holds I135, a chain nuclide without cross
\* sections, with a positive number of atoms.
C25_Witness ==
    /\ size = 2
    /\ pc[1] = "bcast"
    /\ statepoint.exists
    /\ Len(statepoint.nuclides) = 2
    /\ burn_mat_list(1) = <<str(2)>>
    /\ number[1][str(2)]["I135"] > 0
    /\ "I135" \notin Range(burn_nuc_to_ind)

---------------------------------------------------------------------------
(* C26: a rank that has left generate_materials_xml in a step holds no     *)
(* negative number of atoms of a participating nuclide; the nuc_set it     *)
(* then computes in generate_tally_xml holds exactly the participating     *)
(* nuclides of which one of its materials has a positive number, and rank  *)
(* 0 adds to its own the sets of the other ranks; a nuclide that eval was  *)
(* given with no positive number in any material of a rank is not in that  *)
(* rank's nuc_set, and one that no rank was given a positive number of is  *)
(* not in the tally of the step.                                           *)

\* The rank is past generate_materials_xml in its call of eval.
PastMaterials(r) ==
    pc[r] \notin {"idle", "materials"} /\ (r = 0 => pc[0] # "materials_recv")

\* The rank is past lines 631-638 of generate_tally_xml.
PastNucSet(r) == PastMaterials(r) /\ pc[r] # "materials_barrier"

\* One of the rank's materials holds the nuclide with a positive number.
HoldsPositive(r, nuc) ==
    \E mat \in Range(mat_to_ind(r)) : number[r][mat][nuc] > 0

\* eval was given a positive number of the nuclide for a material of the rank.
GivenPositive(r, nuc) ==
    \E mat \in Range(mat_to_ind(r)) : GivenDensity(r, mat, nuc) > 0

Participating == {nuc \in Range(nuc_dict) : nuc \in participating_nuclides}

C26_ClampedFirst ==
    \A r \in Ranks :
        /\ PastMaterials(r) =>
               \A mat \in Range(mat_to_ind(r)), nuc \in Participating :
                   /\ number[r][mat][nuc] >= 0
                   /\ number[r][mat][nuc] > 0 <=> GivenDensity(r, mat, nuc) > 0
        /\ (PastNucSet(r) /\ r # 0) =>
               nuc_set[r] = {nuc \in Participating : HoldsPositive(r, nuc)}
        /\ (PastNucSet(r) /\ r = 0) =>
               nuc_set[0] = {nuc \in Participating :
                                \E q \in Ranks :
                                    /\ pc[0] = "tally_recv" => q < ri
                                    /\ HoldsPositive(q, nuc)}
        /\ PastNucSet(r) =>
               \A nuc \in Participating :
                   /\ ~GivenPositive(r, nuc) => (r # 0 => nuc \notin nuc_set[r])
                   /\ (pc[0] \notin {"idle", "materials", "materials_recv",
                                     "materials_barrier", "tally_recv"}
                       /\ \A q \in Ranks : PastMaterials(q) /\ ~GivenPositive(q, nuc)) =>
                          /\ nuc \notin nuc_set[0]
                          /\ nuc \notin Range(tallies_xml.nuclides)

\* One rank was given U235 with 2 atoms in its first material and -3 in its
\* second: their sum is negative, the clamped sum is not, and U235 is
\* tallied; Xe135, given as 0 in both, is not.
C26_Witness ==
    /\ size = 1
    /\ pc[0] = "call"
    /\ vec[0][1][2] = 2 /\ vec[0][2][2] = -3
    /\ vec[0][1][1] = 0 /\ vec[0][2][1] = 0
    /\ number[0][mat_to_ind(0)[2]]["U235"] = 0
    /\ "U235" \in nuc_set[0]
    /\ tallies_xml.nuclides = <<"U235">>

=============================================================================
